---- MODULE Spec2Model ----
(***************************************************************************)
(* Verification model of the Slack agent backend (agent_py).               *)
(*                                                                         *)
(*   Spec        one streamed turn: managed_stream_wrapper driving         *)
(*               stream_agent_events (retry loop, event normalisation).    *)
(*   SpecConc    concurrent /generate requests sharing the process-wide    *)
(*               provider instances (identity ContextVar, NotionMCPByURL,  *)
(*               FilteredMCPServerSse).                                    *)
(*   SpecFilter  the per-user tool filter as a function of its inputs.     *)
(*   SpecSchema  the schema repair (patch_tool_list_schemas_V2) as a       *)
(*               function of the fetched tool list.                        *)
(*   SpecRegistry one request connecting the agent's providers and the     *)
(*               model run listing their tools.                            *)
(*   SpecMessages the message list generate_stream assembles from the      *)
(*               request's history and prompt.                             *)
(***************************************************************************)
EXTENDS Integers, Sequences, FiniteSets, TLC

VARIABLES
    \* ---- one turn (server.py: managed_stream_wrapper / stream_agent_events)
    pc,               \* position of the response generator
    attempts_left,    \* server.py:111
    cleaned_messages, \* message list assembled by generate_stream
    sent,             \* message lists handed to Runner.run_streamed, in order
    wire,             \* wire events yielded to the caller, in order
    attemptOut,       \* wire events yielded by the current attempt
    consumed,         \* underlying events consumed in the turn
    underlying,       \* the underlying events consumed, in order
    attemptFrom,      \* events consumed before the current attempt
    retried,          \* retryable failures that were retried
    lastFailure,      \* the failure that was handled last (NoFailure if none)
    outcome,          \* how the turn ended
    caughtAt,         \* where a failure was caught
    railway_connected,\* _connected flag of railway_mcp_server
    closed,           \* the caller closed or cancelled the response generator
    \* ---- concurrent requests (server.py: generate_stream, mcp_servers.py)
    rpc,              \* position of each request
    reqIdentity,      \* slackUserId carried by each request ("" = none)
    slack_user_id_var,\* ContextVar value in each request's context
    localUid,         \* slack_user_id local of a suspended list_tools
    connUrl,          \* URL the request's last connect() connects to
    notion_params_url,\* NotionMCPByURL.params['url']
    notion_session,   \* target of NotionMCPByURL.session (<<>> = None)
    filt_session,     \* FilteredMCPServerSse.session is set
    filt_tools_list,  \* FilteredMCPServerSse._tools_list (cache)
    filt_cache_dirty, \* FilteredMCPServerSse._cache_dirty
    cacheFiller,      \* request whose fetch filled the cache (0 = nobody)
    lastRead,         \* identity a request read last from the ContextVar
    lastUse,          \* session target a request's last list/call went to
    catalog,          \* catalog the filtered provider returned last
    steps,            \* provider operations performed (bounded)
    \* ---- the filter as a function
    fpc, fTools, fUid, fAllowed, fResult,
    \* ---- the schema repair as a function
    spc,              \* position: call, once, twice
    sTools,           \* tool list as fetched
    sOnce,            \* patch_tool_list_schemas_V2(sTools)
    sTwice,           \* patch_tool_list_schemas_V2(sOnce)
    \* ---- one request resolving the agent's providers
    qpc,              \* position: startup, connect, run, proceeded, failed
    qIdentity,        \* slackUserId of the request
    qi,               \* index of the provider the current loop is at
    session,          \* per provider: session is set
    connect_failed,   \* providers whose per-request connect() raised
    remote,           \* per provider: the catalog its remote serves
    listed,           \* per provider: outcome of its list_tools
    resolved,         \* tools collected for the model, in order
    qwire,            \* wire events yielded to the caller
    connect_calls,    \* connect() calls made on each provider in the request
    startup_calls,    \* connect() calls made on each provider at startup
    \* ---- message assembly (server.py: generate_stream)
    mpc,              \* position in generate_stream
    history,          \* req.history
    prompt,           \* req.prompt
    processed_history,    \* server.py:462
    current_user_content, \* server.py:504
    messages,         \* the list handed to stream_agent_events / the run
    model_input       \* what the run presents to the model

turnVars == <<pc, attempts_left, cleaned_messages, sent, wire, attemptOut,
              consumed, underlying, attemptFrom, retried, lastFailure,
              outcome, caughtAt, railway_connected, closed>>
concVars == <<rpc, reqIdentity, slack_user_id_var, localUid, connUrl,
              notion_params_url, notion_session, filt_session,
              filt_tools_list, filt_cache_dirty, cacheFiller, lastRead,
              lastUse, catalog, steps>>
filterVars == <<fpc, fTools, fUid, fAllowed, fResult>>
schemaVars == <<spc, sTools, sOnce, sTwice>>
regVars == <<qpc, qIdentity, qi, session, connect_failed, remote, listed,
             resolved, qwire, connect_calls, startup_calls>>
msgVars == <<mpc, history, prompt, processed_history, current_user_content,
             messages, model_input>>
vars == <<turnVars, concVars, filterVars, schemaVars, regVars, msgVars>>

\* ------------------------------------------------------------------ bounds
MaxEvents == 2        \* underlying events consumed per turn
MaxSteps == 2         \* list_tools / call_tool operations per run of SpecConc
MaxCatalog == 3       \* tools in a provider catalog
NumRequests == 2      \* concurrent /generate requests
MaxNest == 11         \* nesting levels of the deepest schema chain
MaxTools == 2         \* tools in a tool list handed to the schema repair
MaxHistory == 2       \* entries of a request's history
MaxPrompt == 2        \* content items of a list prompt

\* --------------------------------------------------------------- constants
max_retries == 2
default_max_depth == 8 \* mcp_servers.py:13, max_depth=8

\* ------------------------------------------------------------ small helpers
Last(s) == s[Len(s)]

RECURSIVE CountIf(_, _)
CountIf(s, T) ==
    IF s = <<>> THEN 0
    ELSE (IF Head(s).type \in T THEN 1 ELSE 0) + CountIf(Tail(s), T)

\* ======================================================================
\*  Values carried by events (arguments, results, data)
\* ======================================================================
None == "none"
Unser == "unser"                 \* an object json.dumps rejects (TypeError)
JsonStr == "json:{q:1}"          \* a str holding a JSON document
PlainStr == "str:hello"          \* a str that is not JSON
Obj == "obj:{q:1}"               \* the structured value of JsonStr
Vals == {None, Unser, JsonStr, PlainStr, Obj}

IsStr(v) == v \in {JsonStr, PlainStr}
Serializable(v) == v # Unser
\* json.loads inside try/except: the parsed value, or the input when it raises
JsonLoadsOrKeep(v) == IF v = JsonStr THEN Obj ELSE v
\* `isinstance(x, str)` guard followed by json.loads (server.py:205-209)
ParseIfStr(v) == IF IsStr(v) THEN JsonLoadsOrKeep(v) ELSE v
StrOf(v) == IF v = Unser THEN "str:<object>" ELSE v

\* ======================================================================
\*  Underlying run events of the model-execution collaborator
\* ======================================================================
NoAttr == "<no-attr>"            \* the attribute does not exist
UnserType == "<unser-type>"      \* a type attribute json.dumps rejects
NoItem == "<no-item>"            \* event.item is None

Ev(t, n, v, d) == [type |-> t, name |-> n, val |-> v, data |-> d]

Events ==
    { Ev("raw_response_event", NoAttr, "a", "delta"),
      Ev("raw_response_event", NoAttr, "b", "delta"),
      Ev("raw_response_event", NoAttr, None, "other"),
      Ev("raw_response_event", NoAttr, None, NoAttr),
      Ev("tool_call", "t_1", JsonStr, NoAttr),
      Ev("tool_call", "t_1", Unser, NoAttr),
      Ev("run_item_stream_event", "tool_called", JsonStr, NoAttr),
      Ev("run_item_stream_event", "tool_called", PlainStr, NoAttr),
      Ev("run_item_stream_event", "tool_called", NoItem, NoAttr),
      Ev("run_item_stream_event", "tool_output", JsonStr, NoAttr),
      Ev("run_item_stream_event", "tool_output", Obj, NoAttr),
      Ev("run_item_stream_event", "message_output_created", None, NoAttr),
      Ev("tool_result", "t_1", Obj, NoAttr),
      Ev("tool_error", NoAttr, PlainStr, NoAttr),
      Ev("agent_updated_stream_event", NoAttr, None, NoAttr),
      Ev("custom_event", NoAttr, None, Unser),
      Ev(NoAttr, NoAttr, None, Obj),
      Ev(UnserType, NoAttr, None, None) }

\* ======================================================================
\*  Wire events
\* ======================================================================
W(t, d) == [type |-> t, data |-> d]
Terminal == {"final_message", "error"}

\* ---- lines 140-318: tool logging / structured tool events ------------
ToolPart(ev) ==
    IF ev.type = NoAttr THEN <<>>
    ELSE IF ev.type \in {"tool_call", "function_call"} THEN
        \* yield inside try/except: nothing is emitted when dumps raises
        IF Serializable(ev.val)
        THEN << W("tool_calls", <<ev.name, ev.val>>) >>
        ELSE <<>>
    ELSE IF ev.type = "run_item_stream_event" THEN
        IF ev.name = "tool_called" /\ ev.val # NoItem THEN
            IF Serializable(ParseIfStr(ev.val))
            THEN << W("tool_calls", <<"t_1", ParseIfStr(ev.val)>>) >>
            ELSE <<>>
        ELSE IF ev.name = "tool_output" /\ ev.val # NoItem THEN
            IF Serializable(ParseIfStr(ev.val))
            THEN << W("tool_result", <<ParseIfStr(ev.val)>>) >>
            ELSE <<>>
        ELSE <<>>
    ELSE IF ev.type \in {"tool_result", "function_result"} THEN
        IF Serializable(ev.val)
        THEN << W("tool_result", <<ev.name, ev.val>>) >>
        ELSE <<>>
    ELSE <<>>            \* tool_error / function_error: logged only

\* ---- lines 321-370: delta, chatter, fallback passthrough -------------
\* raises: evaluating event.data of a raw_response_event without data
RestRaises(ev) == ev.type = "raw_response_event" /\ ev.data = NoAttr

\* faulty variant: the passthrough event carries the stock type string
\* (the initial value of event_type_str) instead of the event's type
RestPart_StockType(ev) ==
    IF ev.type = "raw_response_event" THEN
        IF ev.data = "delta" THEN << W("llm_chunk", <<ev.val>>) >> ELSE <<>>
    ELSE IF ev.type \in {"agent_updated_stream_event",
                         "run_item_stream_event"} THEN <<>>
    ELSE IF ev.type = UnserType THEN
        << W("error", <<"JSON serialization error">>) >>
    ELSE
        << W("unknown_fallback",
             << IF ev.data = NoAttr THEN None
                ELSE IF Serializable(ev.data) THEN ev.data
                ELSE StrOf(ev.data) >>) >>

RestPart(ev) ==
    IF ev.type = "raw_response_event" THEN
        IF ev.data = "delta" THEN << W("llm_chunk", <<ev.val>>) >> ELSE <<>>
    ELSE IF ev.type \in {"agent_updated_stream_event",
                         "run_item_stream_event"} THEN <<>>
    ELSE IF ev.type = UnserType THEN
        \* json.dumps(output_event) raises TypeError (line 367-369)
        << W("error", <<"JSON serialization error">>) >>
    ELSE
        << W(IF ev.type = NoAttr THEN "unknown_fallback_attr" ELSE ev.type,
             << IF ev.data = NoAttr THEN None
                ELSE IF Serializable(ev.data) THEN ev.data
                ELSE StrOf(ev.data) >>) >>

\* The wire events one underlying event produces, and whether handling it
\* raises out of the loop body (after the tool part has been yielded).
Normalize(ev) ==
    [ out    |-> IF RestRaises(ev) THEN ToolPart(ev)
                 ELSE ToolPart(ev) \o RestPart(ev),
      raises |-> RestRaises(ev) ]


\* ======================================================================
\*  Failures raised by the model run
\* ======================================================================
\* str(e) is modelled as  head ++ " " ++ name ++ " " ++ tail ; name is the
\* sequence of characters of the tool name the message mentions.
NotFoundTail == "not found in agent"
Fl(c, h, n, t) == [cls |-> c, head |-> h, name |-> n, tail |-> t]
NoFailure == Fl("", "", <<>>, "")
AttributeError == Fl("AttributeError", "object", <<>>, "has no attribute data")

Failures ==
    { Fl("ModelBehaviorError", "Tool", <<"t", "_", "1">>, NotFoundTail),
      Fl("ModelBehaviorError", "Tool", <<"t", "-", "1">>, NotFoundTail),
      Fl("ModelBehaviorError", "Invalid", <<"j">>, "JSON in tool arguments"),
      Fl("ClosedResourceError", "", <<>>, ""),
      Fl("UserError", "Invalid", <<"i">>, "input format"),
      Fl("Exception", "Tool", <<"t", "_", "1">>, NotFoundTail) }

\* [\w\d_] of the regular expression at server.py:392
WordChars == {"t", "j", "i", "1", "_"}
NoMatch == <<>>

\* `"not found in agent" in str(e)`
ContainsNotFound(f) == f.tail = NotFoundTail

\* re.search(r"Tool ([\w\d_]+) not found in agent", str(e)) -> group(1)
ReSearchTool(f) ==
    IF /\ f.head = "Tool"
       /\ f.tail = NotFoundTail
       /\ f.name # <<>>
       /\ \A i \in 1..Len(f.name) : f.name[i] \in WordChars
    THEN f.name
    ELSE NoMatch

\* names bound in the module namespace of server.py (imports, lines 1-62)
ServerGlobals == {"slack_user_id_var", "Runner", "ModelBehaviorError",
                  "_agent", "ACTIVE_MCP_SERVERS", "app", "MAX_AGENT_TURNS"}

\* ---- faulty variants of the except clause: a property about the handler
\* ---- must fail on them
HandleFailure_RetryAnyBehaviorError(f, al) ==
    IF f.cls = "ModelBehaviorError" THEN
        IF al > 0
        THEN [act |-> "retry", out |-> <<>>, reset |-> FALSE]
        ELSE [act |-> "stop",
              out |-> << W("final_message",
                           <<"tool_not_found">> \o ReSearchTool(f)) >>,
              reset |-> FALSE]
    ELSE IF f.cls = "ClosedResourceError" THEN
        [act |-> "stop", out |-> << W("error", <<"connection_lost", f.cls>>) >>,
         reset |-> "railway_mcp_server" \in ServerGlobals]
    ELSE
        [act |-> "stop", out |-> << W("error", <<"unexpected", f.cls>>) >>,
         reset |-> FALSE]

HandleFailure_ReraiseUnclassified(f, al) ==
    IF f.cls = "ModelBehaviorError" /\ ContainsNotFound(f) THEN
        IF al > 0
        THEN [act |-> "retry", out |-> <<>>, reset |-> FALSE]
        ELSE [act |-> "stop",
              out |-> << W("final_message",
                           <<"tool_not_found">> \o ReSearchTool(f)) >>,
              reset |-> FALSE]
    ELSE IF f.cls = "ClosedResourceError" THEN
        [act |-> "stop", out |-> << W("error", <<"connection_lost", f.cls>>) >>,
         reset |-> "railway_mcp_server" \in ServerGlobals]
    ELSE
        [act |-> "raise", out |-> <<>>, reset |-> FALSE]

\* ---- the except clause of stream_agent_events (server.py:373-423) ------
\* f: the exception, al: attempts_left.  act: what the loop does next,
\* out: the wire events yielded, reset: whether the _connected flag of
\* railway_mcp_server is cleared.
\* faulty variant: the retry is taken without looking at attempts_left
HandleFailure_RetryWithoutBudget(f, al) ==
    IF f.cls = "ModelBehaviorError" /\ ContainsNotFound(f) THEN
        [act |-> "retry", out |-> <<>>, reset |-> FALSE]
    ELSE IF f.cls = "ClosedResourceError" THEN
        [act |-> "stop", out |-> << W("error", <<"connection_lost", f.cls>>) >>,
         reset |-> "railway_mcp_server" \in ServerGlobals]
    ELSE
        [act |-> "stop", out |-> << W("error", <<"unexpected", f.cls>>) >>,
         reset |-> FALSE]

HandleFailure(f, al) ==
    IF f.cls = "ModelBehaviorError" /\ ContainsNotFound(f) THEN
        IF al > 0
        THEN [act |-> "retry", out |-> <<>>, reset |-> FALSE]
        ELSE [act |-> "stop",
              out |-> << W("final_message",
                           <<"tool_not_found">> \o ReSearchTool(f)) >>,
              reset |-> FALSE]
    ELSE IF f.cls = "ClosedResourceError" THEN
        [act |-> "stop", out |-> << W("error", <<"connection_lost", f.cls>>) >>,
         reset |-> "railway_mcp_server" \in ServerGlobals]
    ELSE
        [act |-> "stop", out |-> << W("error", <<"unexpected", f.cls>>) >>,
         reset |-> FALSE]

\* ======================================================================
\*  Message lists assembled by generate_stream
\* ======================================================================
Msg(r, c) == [role |-> r, content |-> c]
MessageLists ==
    { <<>>,
      << Msg("user", "") >>,
      << Msg("user", "hi") >>,
      << Msg("user", "q"), Msg("assistant", "a"), Msg("user", "hi") >> }

\* `not cleaned_messages or not cleaned_messages[-1].get("content")`
NoContent(ms) == ms = <<>> \/ Last(ms).content = ""

\* ======================================================================
\*  One turn
\* ======================================================================
TurnIdle ==
    /\ pc = "idle" /\ attempts_left = 0 /\ cleaned_messages = <<>>
    /\ sent = <<>> /\ wire = <<>> /\ attemptOut = <<>> /\ consumed = 0
    /\ underlying = <<>> /\ attemptFrom = 0
    /\ retried = 0 /\ lastFailure = NoFailure /\ outcome = "none"
    /\ caughtAt = "none" /\ railway_connected = FALSE /\ closed = FALSE

ConcIdle ==
    /\ rpc = <<>> /\ reqIdentity = <<>> /\ slack_user_id_var = <<>>
    /\ localUid = <<>> /\ connUrl = <<>> /\ notion_params_url = <<>>
    /\ notion_session = <<>> /\ filt_session = FALSE /\ filt_tools_list = <<>>
    /\ filt_cache_dirty = TRUE /\ cacheFiller = 0
    /\ lastRead = <<>> /\ lastUse = <<>> /\ catalog = <<>> /\ steps = 0

FilterIdle ==
    /\ fpc = "idle" /\ fTools = <<>> /\ fUid = "" /\ fAllowed = {}
    /\ fResult = <<>>

SchemaIdle ==
    /\ spc = "idle" /\ sTools = <<>> /\ sOnce = <<>> /\ sTwice = <<>>

RegIdle ==
    /\ qpc = "idle" /\ qIdentity = "" /\ qi = 0 /\ session = <<>>
    /\ connect_failed = {} /\ remote = <<>> /\ listed = <<>>
    /\ resolved = <<>> /\ qwire = <<>> /\ connect_calls = <<>>
    /\ startup_calls = <<>>

MsgIdle ==
    /\ mpc = "idle" /\ history = <<>> /\ prompt = <<>>
    /\ processed_history = <<>> /\ current_user_content = <<>>
    /\ messages = <<>> /\ model_input = <<>>

Init ==
    /\ pc = "start"
    /\ attempts_left = max_retries
    /\ cleaned_messages \in MessageLists
    /\ sent = <<>> /\ wire = <<>> /\ attemptOut = <<>>
    /\ consumed = 0 /\ retried = 0
    /\ underlying = <<>> /\ attemptFrom = 0
    /\ lastFailure = NoFailure
    /\ outcome = "none" /\ caughtAt = "none"
    /\ railway_connected \in BOOLEAN
    /\ closed = FALSE
    /\ ConcIdle /\ FilterIdle /\ SchemaIdle /\ RegIdle /\ MsgIdle

\* faulty variant: the list is handed to the run without the content test
WrapperStart_NoContentTest ==
    /\ pc = "start"
    /\ pc' = "invoke"
    /\ UNCHANGED <<wire, outcome>>
    /\ UNCHANGED <<attempts_left, cleaned_messages, sent, attemptOut,
                   consumed, underlying, attemptFrom, retried, lastFailure,
                   caughtAt, railway_connected>>
    /\ UNCHANGED closed
    /\ UNCHANGED <<concVars, filterVars, schemaVars, regVars, msgVars>>

\* managed_stream_wrapper, lines 584-589
WrapperStart ==
    /\ pc = "start"
    /\ IF NoContent(cleaned_messages)
       THEN /\ wire' = << W("error", <<"no_content">>) >>
            /\ pc' = "done"
            /\ outcome' = "no_content"
       ELSE /\ pc' = "invoke"
            /\ UNCHANGED <<wire, outcome>>
    /\ UNCHANGED <<attempts_left, cleaned_messages, sent, attemptOut,
                   consumed, underlying, attemptFrom, retried, lastFailure,
                   caughtAt, railway_connected>>
    /\ UNCHANGED closed
    /\ UNCHANGED <<concVars, filterVars, schemaVars, regVars, msgVars>>

\* faulty variant: a retry sends the list with a note about the failed
\* attempt appended
RunStreamed_RetryAddsMessage ==
    /\ pc = "invoke"
    /\ sent' = Append(sent, IF retried > 0
                            THEN Append(cleaned_messages,
                                        Msg("user", "previous attempt failed"))
                            ELSE cleaned_messages)
    /\ attemptOut' = <<>>
    /\ attemptFrom' = Len(underlying)
    /\ pc' = "streaming"
    /\ UNCHANGED <<attempts_left, cleaned_messages, wire, consumed, underlying,
                   retried, lastFailure, outcome, caughtAt, railway_connected>>
    /\ UNCHANGED closed
    /\ UNCHANGED <<concVars, filterVars, schemaVars, regVars, msgVars>>

\* Runner.run_streamed(agent, messages, ...), lines 113-126
RunStreamed ==
    /\ pc = "invoke"
    /\ sent' = Append(sent, cleaned_messages)
    /\ attemptOut' = <<>>
    /\ attemptFrom' = Len(underlying)
    /\ pc' = "streaming"
    /\ UNCHANGED <<attempts_left, cleaned_messages, wire, consumed, underlying,
                   retried, lastFailure, outcome, caughtAt, railway_connected>>
    /\ UNCHANGED closed
    /\ UNCHANGED <<concVars, filterVars, schemaVars, regVars, msgVars>>

\* The generator's reaction to exception f raised in the try block, after
\* the wire has grown to w (and the attempt's output to ao).
Failed(f, w, ao) ==
    LET h == HandleFailure(f, attempts_left) IN
    /\ lastFailure' = f
    /\ IF h.act = "retry" THEN
            /\ attempts_left' = attempts_left - 1
            /\ retried' = retried + 1
            /\ pc' = "backoff"
            /\ wire' = w /\ attemptOut' = ao
            /\ caughtAt' = "turn"
            /\ UNCHANGED <<outcome, railway_connected>>
       ELSE IF h.act = "stop" THEN
            /\ wire' = w \o h.out /\ attemptOut' = ao \o h.out
            /\ pc' = "done"
            /\ outcome' = IF h.out # <<>> /\ h.out[1].type = "final_message"
                          THEN "exhausted" ELSE "error"
            /\ caughtAt' = "turn"
            /\ railway_connected' = IF h.reset THEN FALSE
                                    ELSE railway_connected
            /\ UNCHANGED <<attempts_left, retried>>
       ELSE \* the exception leaves stream_agent_events: lines 591-597
            /\ wire' = Append(w, W("error", <<"wrapper", f.cls>>))
            /\ attemptOut' = ao
            /\ pc' = "done"
            /\ outcome' = "error"
            /\ caughtAt' = "wrapper"
            /\ UNCHANGED <<attempts_left, retried, railway_connected>>

\* faulty variant: the events an iteration yields are put in front of what
\* the turn has yielded so far
ConsumeEvent_Prepends(ev) ==
    /\ pc = "streaming"
    /\ consumed < MaxEvents
    /\ consumed' = consumed + 1
    /\ underlying' = Append(underlying, ev)
    /\ LET n == Normalize(ev) IN
       IF n.raises
       THEN Failed(AttributeError, n.out \o wire, n.out \o attemptOut)
       ELSE /\ wire' = n.out \o wire
            /\ attemptOut' = n.out \o attemptOut
            /\ UNCHANGED <<pc, attempts_left, retried, lastFailure, outcome,
                           caughtAt, railway_connected>>
    /\ UNCHANGED <<cleaned_messages, sent, attemptFrom>>
    /\ UNCHANGED closed
    /\ UNCHANGED <<concVars, filterVars, schemaVars, regVars, msgVars>>

\* one iteration of `async for event in run_result.stream_events()`
ConsumeEvent(ev) ==
    /\ pc = "streaming"
    /\ consumed < MaxEvents
    /\ consumed' = consumed + 1
    /\ underlying' = Append(underlying, ev)
    /\ LET n == Normalize(ev) IN
       IF n.raises
       THEN Failed(AttributeError, wire \o n.out, attemptOut \o n.out)
       ELSE /\ wire' = wire \o n.out
            /\ attemptOut' = attemptOut \o n.out
            /\ UNCHANGED <<pc, attempts_left, retried, lastFailure, outcome,
                           caughtAt, railway_connected>>
    /\ UNCHANGED <<cleaned_messages, sent, attemptFrom>>
    /\ UNCHANGED closed
    /\ UNCHANGED <<concVars, filterVars, schemaVars, regVars, msgVars>>

\* the model run raises f (from run_streamed or from stream_events)
RunRaises(f) ==
    /\ pc = "streaming"
    /\ Failed(f, wire, attemptOut)
    /\ UNCHANGED <<cleaned_messages, sent, consumed, underlying, attemptFrom>>
    /\ UNCHANGED closed
    /\ UNCHANGED <<concVars, filterVars, schemaVars, regVars, msgVars>>

\* `await asyncio.sleep(0.5); continue`, lines 386-387
Backoff ==
    /\ pc = "backoff"
    /\ pc' = "invoke"
    /\ UNCHANGED <<attempts_left, cleaned_messages, sent, wire, attemptOut,
                   consumed, underlying, attemptFrom, retried, lastFailure,
                   outcome, caughtAt, railway_connected>>
    /\ UNCHANGED closed
    /\ UNCHANGED <<concVars, filterVars, schemaVars, regVars, msgVars>>

\* the event stream is exhausted: line 428
RunCompletes ==
    /\ pc = "streaming"
    /\ pc' = "done"
    /\ outcome' = "clean"
    /\ UNCHANGED <<attempts_left, cleaned_messages, sent, wire, attemptOut,
                   consumed, underlying, attemptFrom, retried, lastFailure,
                   caughtAt, railway_connected>>
    /\ UNCHANGED closed
    /\ UNCHANGED <<concVars, filterVars, schemaVars, regVars, msgVars>>

\* asyncio.CancelledError / GeneratorExit: a BaseException, not an Exception
CancelledError == Fl("CancelledError", "", <<>>, "")

\* faulty variant: the cancellation is caught like any failure of the run
\* (as `except BaseException` would)
Cancel_CaughtAsFailure ==
    /\ pc \in {"streaming", "backoff"}
    /\ closed' = TRUE
    /\ Failed(CancelledError, wire, attemptOut)
    /\ UNCHANGED <<cleaned_messages, sent, consumed, underlying, attemptFrom>>
    /\ UNCHANGED <<concVars, filterVars, schemaVars, regVars, msgVars>>

\* the caller disconnects: the generator is closed or cancelled where it is
\* suspended, at a yield or the sleep after it (lines 162-370), while
\* waiting for the next event (126) or in the back-off (386).  None of the
\* `except Exception` clauses (373, 591) catches it and the finally clauses
\* (424, 598) only print, so both generators end there.
Cancel ==
    /\ pc \in {"streaming", "backoff"}
    /\ closed' = TRUE
    /\ pc' = "closed"
    /\ UNCHANGED <<attempts_left, cleaned_messages, sent, wire, attemptOut,
                   consumed, underlying, attemptFrom, retried, lastFailure,
                   outcome, caughtAt, railway_connected>>
    /\ UNCHANGED <<concVars, filterVars, schemaVars, regVars, msgVars>>

Next ==
    \/ WrapperStart
    \/ RunStreamed
    \/ \E ev \in Events : ConsumeEvent(ev)
    \/ \E f \in Failures : RunRaises(f)
    \/ Backoff
    \/ RunCompletes
    \/ Cancel

Spec == Init /\ [][Next]_vars

\* the steps the generator takes by itself while the caller keeps reading
Progress ==
    \/ WrapperStart
    \/ RunStreamed
    \/ \E ev \in Events : ConsumeEvent(ev)
    \/ \E f \in Failures : RunRaises(f)
    \/ Backoff
    \/ RunCompletes

\* The response generator is driven by the event loop for as long as the
\* caller reads; every model stream is finite (a run ends or raises).
SpecLive == Spec /\ WF_vars(Progress)


\* ======================================================================
\*  Properties of one turn (checked under Spec)
\* ======================================================================
TurnFailed == outcome \in {"exhausted", "error", "no_content"}

\* The retryable condition as the claims state it.
ClaimRetryable(f) == f.cls = "ModelBehaviorError" /\ f.tail = NotFoundTail

\* C1: a turn whose run failed with the retryable failure k >= 1 times and
\* then completed cleanly delivers exactly the wire events of the final,
\* successful attempt.
C1_OnlyFinalAttemptDelivered ==
    (pc = "done" /\ outcome = "clean" /\ retried >= 1) => wire = attemptOut

\* C2: a turn whose run fails with the retryable failure on every attempt
\* emits exactly one final_message with metadata.error = tool_not_found and
\* metadata.tool = the tool name of the failure message, emits no error
\* event, and has invoked the model max_retries + 1 times.
C2_ExhaustedEmitsOneFinalMessage ==
    (pc = "done" /\ retried = max_retries /\ ClaimRetryable(lastFailure)) =>
        /\ CountIf(wire, {"final_message"}) = 1
        /\ CountIf(wire, {"error"}) = 0
        /\ Last(wire).type = "final_message"
        /\ Last(wire).data = <<"tool_not_found">> \o lastFailure.name
        /\ Len(sent) = max_retries + 1

\* C3: a turn emits at most one terminal event, and a failed turn emits
\* exactly one.
C3_OneTerminalEvent ==
    /\ CountIf(wire, Terminal) <= 1
    /\ (pc = "done" /\ TurnFailed) => CountIf(wire, Terminal) = 1

\* C4: once a terminal event has been emitted, no further wire event is
\* emitted and no further underlying event is consumed.
C4_StreamEndsOnFirstTerminal ==
    [][ CountIf(wire, Terminal) > 0 => (wire' = wire /\ consumed' = consumed)
      ]_vars

\* C5: handling a failure that is not the retryable one emits exactly one
\* event, an error event, ends the turn, and never leads to another
\* invocation of the model, whatever attempts_left is.
C5_NonRetryableEndsWithOneError ==
    [][ /\ (lastFailure' # lastFailure /\ ~ClaimRetryable(lastFailure')) =>
              /\ Len(wire') = Len(wire) + 1
              /\ SubSeq(wire', 1, Len(wire)) = wire
              /\ Last(wire').type = "error"
              /\ pc' = "done"
              /\ sent' = sent
              /\ attempts_left' = attempts_left
        /\ (pc = "done" => (sent' = sent /\ wire' = wire))
      ]_vars

\* a lost connection after one retry, with one attempt still left
C5_Witness ==
    /\ pc = "done" /\ lastFailure.cls = "ClosedResourceError"
    /\ retried = 1 /\ attempts_left = 1
    /\ Len(sent) = 2 /\ Last(wire).type = "error"

\* C6: no failure leaves stream_agent_events: every failure of the model
\* run or of the normalisation is caught by its except clause, and a turn
\* that ended after a failure ended right after a terminal event.
C6_FailuresCaughtAtTurnBoundary ==
    /\ caughtAt \in {"none", "turn"}
    /\ (lastFailure # NoFailure) => caughtAt = "turn"
    /\ (lastFailure # NoFailure /\ pc = "done" /\ outcome # "clean") =>
          /\ wire # <<>>
          /\ Last(wire).type \in Terminal

\* a failure raised while normalising an event ended the turn
C6_Witness ==
    /\ pc = "done" /\ lastFailure = AttributeError
    /\ caughtAt = "turn" /\ Last(wire).type = "error"


\* ======================================================================
\*  Per-user tool filter (FilteredMCPServerSse.list_tools)
\* ======================================================================
\* Python strings are sequences of characters; NoneStr is Python's None.
NoneStr == << "<None>" >>
Truthy(x) == x # NoneStr /\ x # <<>>

UpperOf == [s |-> "S", j |-> "J", w |-> "W"]
\* str.lower() on one character
LowerChar(c) ==
    IF \E l \in DOMAIN UpperOf : UpperOf[l] = c
    THEN CHOOSE l \in DOMAIN UpperOf : UpperOf[l] = c
    ELSE c
Lower(x) == [i \in 1..Len(x) |-> LowerChar(x[i])]

\* `needle in hay` for two strings
Contains(hay, needle) ==
    \E k \in 0..(Len(hay) - Len(needle)) :
        SubSeq(hay, k + 1, k + Len(needle)) = needle

\* Slack user ids
NoIdentity == ""                 \* slackUserId is None (or empty)
Wouter == "U07G1UMQ64C"
Leonie == "U08K4SFL5LP"
Sjoerd == "U08K6QFBPB9"
Stranger == "U00STRANGER"        \* an id in none of the maps
Identities == {NoIdentity, Sjoerd, Wouter, Stranger}

\* self._user_tool_map (mcp_servers.py:267-271)
user_tool_map ==
    [ U07G1UMQ64C |-> <<"w", "o", "u", "t", "e", "r">>,
      U08K4SFL5LP |-> <<"l", "e", "o", "n", "i", "e">>,
      U08K6QFBPB9 |-> <<"s", "j", "o", "e", "r", "d">> ]

Tool(n, d) == [name |-> n, description |-> d]

N_x_sjoerd == <<"x", "_", "s", "j", "o", "e", "r", "d">>
N_A_Sjoerd == <<"a", "_", "S", "j", "o", "e", "r", "d">>
N_y_wouter == <<"y", "_", "w", "o", "u", "t", "e", "r">>
N_a == <<"a">>
N_b == <<"b">>
N_c == <<"c">>

ToolPool ==
    { Tool(N_x_sjoerd, <<"d">>),
      Tool(N_A_Sjoerd, NoneStr),
      Tool(N_y_wouter, <<>>),
      Tool(N_a, <<"m", " ", "|", " ", "S", "j", "o", "e", "r", "d">>),
      Tool(N_a, <<>>),
      Tool(N_b, <<"|", "s", "j", "o", "e", "r", "d">>),
      Tool(N_c, <<"s", "j", "o", "e", "r", "d">>),
      Tool(NoneStr, <<"|", " ", "s", "j", "o", "e", "r", "d">>) }

\* self._allowed_tools = set(allowed_tools) if allowed_tools else None
NoAllowList == [isNone |-> TRUE, names |-> {}]
\* faulty variant: an empty list is kept as an (empty) allow-list
AllowedToolsOf_KeepsEmptyList(cfg) ==
    IF cfg = NoneStr THEN NoAllowList
    ELSE [isNone |-> FALSE, names |-> {cfg[i] : i \in 1..Len(cfg)}]

AllowedToolsOf(cfg) ==
    IF cfg = NoneStr \/ cfg = <<>> THEN NoAllowList
    ELSE [isNone |-> FALSE, names |-> {cfg[i] : i \in 1..Len(cfg)}]

\* values of the allowed_tools constructor argument
AllowConfigs == { NoneStr, <<>>, <<N_a, N_b>>, <<N_c>> }

\* lines 294-298: does the tool match the user's token
MatchForUser(tool, suffix) ==
    IF Truthy(tool.name) /\ Contains(Lower(tool.name), Lower(suffix))
    THEN TRUE
    ELSE /\ Truthy(tool.description)
         /\ Contains(Lower(tool.description), Lower(<<"|", " ">> \o suffix))

\* lines 288-302: the loop of tier 1, from index i on
RECURSIVE UserLoop(_, _, _, _, _)
UserLoop(tools, suffix, i, filtered, seen) ==
    IF i > Len(tools) THEN filtered
    ELSE IF MatchForUser(tools[i], suffix) /\ tools[i].name \notin seen
         THEN UserLoop(tools, suffix, i + 1, Append(filtered, tools[i]),
                       seen \cup {tools[i].name})
         ELSE UserLoop(tools, suffix, i + 1, filtered, seen)

\* faulty variant: tier 2 without the seen-set
RECURSIVE AllowLoop_KeepsDuplicates(_, _, _, _, _)
AllowLoop_KeepsDuplicates(tools, names, i, filtered, seen) ==
    IF i > Len(tools) THEN filtered
    ELSE IF tools[i].name \in names
         THEN AllowLoop_KeepsDuplicates(tools, names, i + 1,
                                        Append(filtered, tools[i]), seen)
         ELSE AllowLoop_KeepsDuplicates(tools, names, i + 1, filtered, seen)

\* lines 311-317: the loop of tier 2, from index i on
RECURSIVE AllowLoop(_, _, _, _, _)
AllowLoop(tools, names, i, filtered, seen) ==
    IF i > Len(tools) THEN filtered
    ELSE IF tools[i].name \in names /\ tools[i].name \notin seen
         THEN AllowLoop(tools, names, i + 1, Append(filtered, tools[i]),
                        seen \cup {tools[i].name})
         ELSE AllowLoop(tools, names, i + 1, filtered, seen)

\* faulty variant: tier 1 falls through to the allow-list when nothing
\* matched
FilterTools_FallThrough(tools, uid, allowed) ==
    IF /\ uid # NoIdentity /\ uid \in DOMAIN user_tool_map
       /\ UserLoop(tools, user_tool_map[uid], 1, <<>>, {}) # <<>>
    THEN UserLoop(tools, user_tool_map[uid], 1, <<>>, {})
    ELSE IF ~allowed.isNone
    THEN AllowLoop(tools, allowed.names, 1, <<>>, {})
    ELSE tools

\* lines 284-324: the filter applied to the fetched catalog
FilterTools(tools, uid, allowed) ==
    IF uid # NoIdentity /\ uid \in DOMAIN user_tool_map
    THEN UserLoop(tools, user_tool_map[uid], 1, <<>>, {})
    ELSE IF ~allowed.isNone
    THEN AllowLoop(tools, allowed.names, 1, <<>>, {})
    ELSE tools

\* ---- the filter as a function of its inputs ---------------------------
Catalogs == UNION { [1..n -> ToolPool] : n \in 0..MaxCatalog }

InitFilter ==
    /\ fpc = "call"
    /\ fTools \in Catalogs
    /\ fUid \in Identities
    /\ fAllowed \in {AllowedToolsOf(cfg) : cfg \in AllowConfigs}
    /\ fResult = <<>>
    /\ TurnIdle /\ ConcIdle /\ SchemaIdle /\ RegIdle /\ MsgIdle

\* list_tools on a fetched catalog.  Tools carry the two fields the filter
\* reads; the schema repair that runs before it (line 277) only rewrites
\* the parameter schemas and leaves names and descriptions alone.
ApplyFilter ==
    /\ fpc = "call"
    /\ fResult' = FilterTools(fTools, fUid, fAllowed)
    /\ fpc' = "done"
    /\ UNCHANGED <<fTools, fUid, fAllowed>>
    /\ UNCHANGED <<turnVars, concVars, schemaVars, regVars, msgVars>>

NextFilter == ApplyFilter

SpecFilter == InitFilter /\ [][NextFilter]_vars

\* ---- what the contract says the tier-1 result is ----------------------
NameHasToken(tool, tok) ==
    tool.name # NoneStr /\ Contains(Lower(tool.name), Lower(tok))
DescHasToken(tool, tok) ==
    /\ tool.description # NoneStr
    /\ Contains(Lower(tool.description), <<"|", " ">> \o Lower(tok))
ScopeMatch(tool, tok) == NameHasToken(tool, tok) \/ DescHasToken(tool, tok)

\* indices of the matching tools that are the first match with their name
KeptIndices(tools, tok) ==
    { i \in 1..Len(tools) :
        /\ ScopeMatch(tools[i], tok)
        /\ ~\E j \in 1..(i - 1) :
              ScopeMatch(tools[j], tok) /\ tools[j].name = tools[i].name }

RECURSIVE PickFrom(_, _, _)
PickFrom(tools, idx, i) ==
    IF i > Len(tools) THEN <<>>
    ELSE (IF i \in idx THEN <<tools[i]>> ELSE <<>>) \o PickFrom(tools, idx, i + 1)

\* C10: for an identity with scope token t the filter returns exactly the
\* tools (first occurrence per name) whose name contains t or whose
\* description contains "| t", case-insensitively, whatever the allow-list
\* is; with no matching tool the result is empty.
C10_ScopedFilterExact ==
    (fpc = "done" /\ fUid \in DOMAIN user_tool_map) =>
        /\ fResult = PickFrom(fTools, KeptIndices(fTools, user_tool_map[fUid]), 1)
        /\ (KeptIndices(fTools, user_tool_map[fUid]) = {} => fResult = <<>>)

\* a known identity, no matching tool, and an allow-list naming a tool of
\* the catalog: the result is empty
C10_Witness ==
    /\ fpc = "done" /\ fUid = Wouter
    /\ fTools = << Tool(N_x_sjoerd, <<"d">>), Tool(N_a, <<>>) >>
    /\ ~fAllowed.isNone /\ N_a \in fAllowed.names
    /\ fResult = <<>>

\* ---- what the contract says the tier-2 and tier-3 results are ---------
\* the identity resolves to no scope token and an allow-list is configured
AllowListTier ==
    /\ fpc = "done"
    /\ ~(fUid # NoIdentity /\ fUid \in DOMAIN user_tool_map)
    /\ ~fAllowed.isNone

\* no identity token and no allow-list
UnfilteredTier ==
    /\ fpc = "done"
    /\ ~(fUid # NoIdentity /\ fUid \in DOMAIN user_tool_map)
    /\ fAllowed.isNone

NamedIndices(tools, names) == { i \in 1..Len(tools) : tools[i].name \in names }

FirstNamedIndices(tools, names) ==
    { i \in NamedIndices(tools, names) :
        ~\E j \in 1..(i - 1) : tools[j].name = tools[i].name }

\* C11 as stated: with no scope token and a non-empty allow-list the
\* filter returns exactly the catalog tools whose name is in the
\* allow-list, in catalog order.
C11_AllowListAllNamed ==
    AllowListTier =>
        fResult = PickFrom(fTools, NamedIndices(fTools, fAllowed.names), 1)

\* C11 amended: with no scope token and a non-empty allow-list the filter
\* returns, in catalog order, the first catalog tool of each name that is
\* in the allow-list.
C11_AllowListFirstPerName ==
    AllowListTier =>
        fResult = PickFrom(fTools, FirstNamedIndices(fTools, fAllowed.names), 1)

\* an unknown identity, allow-list {a, b}, catalog a, b, c
C11_Witness ==
    /\ AllowListTier /\ fUid = Stranger
    /\ fAllowed.names = {N_a, N_b}
    /\ fTools = << Tool(N_a, <<>>),
                   Tool(N_b, <<"|", "s", "j", "o", "e", "r", "d">>),
                   Tool(N_c, <<"s", "j", "o", "e", "r", "d">>) >>
    /\ fResult = << Tool(N_a, <<>>),
                    Tool(N_b, <<"|", "s", "j", "o", "e", "r", "d">>) >>

\* C36: a provider constructed with an empty allow-list is in the same
\* state as one constructed with none, and for an identity without a scope
\* token its filter returns the whole catalog, not an empty list.
C36_EmptyAllowListIsNoAllowList ==
    /\ AllowedToolsOf(<<>>) = AllowedToolsOf(NoneStr)
    /\ ( /\ fpc = "done"
         /\ ~(fUid # NoIdentity /\ fUid \in DOMAIN user_tool_map)
         /\ fAllowed.names = {} )
       => fResult = fTools

C36_Witness ==
    /\ fpc = "done" /\ fUid = Stranger
    /\ fAllowed = AllowedToolsOf(<<>>)
    /\ Len(fTools) = 2 /\ fTools[1].name = N_a /\ fTools[2].name = N_c
    /\ fResult = fTools

\* s[i..] can be read off t[j..] from left to right
RECURSIVE IsSubSeq(_, _, _, _)
IsSubSeq(s, t, i, j) ==
    IF i > Len(s) THEN TRUE
    ELSE IF j > Len(t) THEN FALSE
    ELSE IF s[i] = t[j] THEN IsSubSeq(s, t, i + 1, j + 1)
    ELSE IsSubSeq(s, t, i, j + 1)

NoDuplicateNames(s) ==
    \A i, j \in 1..Len(s) : s[i].name = s[j].name => i = j

\* C12: in each of the three tiers the returned list is a sub-sequence of
\* the catalog in its original order and holds no two tools of one name.
C12_SubSequenceNoDuplicates ==
    fpc = "done" =>
        /\ IsSubSeq(fResult, fTools, 1, 1)
        /\ NoDuplicateNames(fResult)


\* ======================================================================
\*  Concurrent requests on the process-wide provider instances
\* ======================================================================
Reqs == 1..NumRequests

\* contextvars.ContextVar: one value per context; every request runs in
\* its own task, hence in its own context (custom_slack_agent.py:9-11).
\* faulty variant: a process-wide slot instead of a context-local value
ContextVarSet_ProcessWide(var, r, v) == [c \in DOMAIN var |-> v]

ContextVarSet(var, r, v) == [var EXCEPT ![r] = v]
ContextVarGet(var, r) == var[r]

\* mcp_servers.py:226-232
SLACK_ID_TO_URL_TOKEN_MAP ==
    [ U08K6QFBPB9 |-> "sjoerd_url_token",
      U07G1UMQ64C |-> "wouter_url_token",
      U08K4SFL5LP |-> "leonie_url_token" ]
DEFAULT_URL_TOKEN == "default_user_token"
base_server_url == "https://notionmcp-production.up.railway.app/mcp"

\* a URL  base + "/" + token  is the pair <<base, token>>
Placeholder == << "http://placeholder.com/mcp/invalid" >>
NoSession == <<>>

\* faulty variant: no fallback to the default token
GetUserSpecificUrl_NoDefault(uid) ==
    << base_server_url,
       IF uid \in DOMAIN SLACK_ID_TO_URL_TOKEN_MAP
       THEN SLACK_ID_TO_URL_TOKEN_MAP[uid]
       ELSE uid >>

\* NotionMCPByURL._get_user_specific_url with the ContextVar value uid
GetUserSpecificUrl(uid) ==
    << base_server_url,
       IF uid # NoIdentity /\ uid \in DOMAIN SLACK_ID_TO_URL_TOKEN_MAP
       THEN SLACK_ID_TO_URL_TOKEN_MAP[uid]
       ELSE DEFAULT_URL_TOKEN >>

\* the filtered provider of the configuration and what its remote serves
FiltAllowed == AllowedToolsOf(<< N_a >>)
RemoteCatalogs ==
    { << Tool(N_x_sjoerd, <<"d">>), Tool(N_y_wouter, <<>>), Tool(N_a, <<>>) >>,
      << Tool(N_y_wouter, <<>>),
         Tool(N_b, <<"m", " ", "|", " ", "S", "j", "o", "e", "r", "d">>) >> }

\* a catalog returned by list_tools: cachedBy is the request whose fetch
\* filled the cache it came from, 0 for the request's own live fetch
\* identities carried by the concurrent requests; requests are
\* interchangeable, so they are numbered in the order of their identities
ConcIdentities == {NoIdentity, Sjoerd, Wouter, Stranger}
IdRank == (NoIdentity :> 0) @@ (Sjoerd :> 1) @@ (Wouter :> 2) @@ (Stranger :> 3)

Served(tools, filler) == [tools |-> tools, cachedBy |-> filler]
NotServed == Served(<<>>, -1)
\* a request that ended before the ones under study began, and the catalog
\* its fetch left in the cache of the shared instance
EarlierRequest == -2
CachedEarlier ==
    << Tool(N_x_sjoerd, <<"d">>), Tool(N_y_wouter, <<>>), Tool(N_a, <<>>) >>
Unread == "<unread>"

InitConc ==
    /\ rpc = [r \in Reqs |-> "new"]
    /\ reqIdentity \in [Reqs -> ConcIdentities]
    /\ \A r \in Reqs : r > 1 => IdRank[reqIdentity[r - 1]] <= IdRank[reqIdentity[r]]
    /\ slack_user_id_var = [r \in Reqs |-> NoIdentity]
    /\ localUid = [r \in Reqs |-> NoIdentity]
    /\ connUrl = [r \in Reqs |-> NoSession]
    /\ notion_params_url = Placeholder
    /\ notion_session = NoSession
    /\ filt_session = FALSE
    /\ filt_tools_list \in {<<>>, CachedEarlier}
    /\ filt_cache_dirty = TRUE
    /\ cacheFiller = IF filt_tools_list = <<>> THEN 0 ELSE EarlierRequest
    /\ lastRead = [r \in Reqs |-> Unread]
    /\ lastUse = [r \in Reqs |-> NoSession]
    /\ catalog = [r \in Reqs |-> NotServed]
    /\ steps = 0
    /\ TurnIdle /\ FilterIdle /\ SchemaIdle /\ RegIdle /\ MsgIdle

\* generate_stream up to its first suspension: the identity is stored
\* (lines 434-435), the messages are assembled, and the provider loop
\* (lines 565-574) invalidates the cache of the first provider, the
\* filtered one, and awaits its connect().
Receive(r) ==
    /\ rpc[r] = "new"
    /\ slack_user_id_var' =
          IF reqIdentity[r] # NoIdentity
          THEN ContextVarSet(slack_user_id_var, r, reqIdentity[r])
          ELSE slack_user_id_var
    /\ filt_cache_dirty' = TRUE
    /\ rpc' = [rpc EXCEPT ![r] = "f_connect"]
    /\ UNCHANGED <<reqIdentity, localUid, connUrl, notion_params_url,
                   notion_session, filt_session, filt_tools_list, cacheFiller,
                   lastRead, lastUse, catalog, steps>>
    /\ UNCHANGED <<turnVars, filterVars, schemaVars, regVars, msgVars>>

\* connect() of the filtered provider returns (ok) or raises (the failure
\* is logged, lines 576-577); the loop goes on to the per-user provider:
\* no cache to invalidate (cache_tools_list=False), then
\* NotionMCPByURL.connect up to the suspension inside super().connect():
\* the identity is read, params['url'] is written and read back by the
\* transport that is being opened (mcp_servers.py:420-437).
FiltConnectDone(r, ok) ==
    /\ rpc[r] = "f_connect"
    /\ filt_session' = ok
    /\ LET uid == ContextVarGet(slack_user_id_var, r)
           url == GetUserSpecificUrl(uid) IN
       /\ notion_params_url' = url
       /\ connUrl' = [connUrl EXCEPT ![r] = notion_params_url']
       /\ lastRead' = [lastRead EXCEPT ![r] = uid]
    /\ rpc' = [rpc EXCEPT ![r] = "n_connect"]
    /\ UNCHANGED <<reqIdentity, slack_user_id_var, localUid, notion_session,
                   filt_tools_list, filt_cache_dirty, cacheFiller, lastUse,
                   catalog, steps>>
    /\ UNCHANGED <<turnVars, filterVars, schemaVars, regVars, msgVars>>

\* super().connect() of the per-user provider finishes: the session of
\* the shared instance now is the one just opened, or None after a failed
\* attempt (mcp_servers.py:437-443); the response stream starts.
NotionConnectDone(r, ok) ==
    /\ rpc[r] = "n_connect"
    /\ notion_session' = IF ok THEN connUrl[r] ELSE NoSession
    /\ rpc' = [rpc EXCEPT ![r] = "run"]
    /\ UNCHANGED <<reqIdentity, slack_user_id_var, localUid, connUrl,
                   notion_params_url, filt_session, filt_tools_list,
                   filt_cache_dirty, cacheFiller, lastRead, lastUse, catalog,
                   steps>>
    /\ UNCHANGED <<turnVars, filterVars, schemaVars, regVars, msgVars>>

\* FilteredMCPServerSse.list_tools called by the agent run of request r:
\* the identity is read (line 274), then super().list_tools() either
\* raises (no session), returns the cached catalog at once, or marks the
\* cache clean and suspends on the fetch (line 275).
FiltListTools(r) ==
    /\ rpc[r] = "run"
    /\ steps < MaxSteps
    /\ steps' = steps + 1
    /\ LET uid == ContextVarGet(slack_user_id_var, r) IN
       /\ localUid' = [localUid EXCEPT ![r] = uid]
       /\ lastRead' = [lastRead EXCEPT ![r] = uid]
       /\ IF ~filt_session THEN
              /\ rpc' = [rpc EXCEPT ![r] = "done"]
              /\ UNCHANGED <<catalog, filt_cache_dirty>>
          ELSE IF ~filt_cache_dirty /\ filt_tools_list # <<>> THEN
              /\ catalog' = [catalog EXCEPT ![r] =
                     Served(FilterTools(filt_tools_list, uid, FiltAllowed),
                            cacheFiller)]
              /\ UNCHANGED <<rpc, filt_cache_dirty>>
          ELSE
              /\ filt_cache_dirty' = FALSE
              /\ rpc' = [rpc EXCEPT ![r] = "f_list"]
              /\ UNCHANGED catalog
    /\ UNCHANGED <<reqIdentity, slack_user_id_var, connUrl, notion_params_url,
                   notion_session, filt_session, filt_tools_list, cacheFiller,
                   lastUse>>
    /\ UNCHANGED <<turnVars, filterVars, schemaVars, regVars, msgVars>>

\* the fetch returns the remote catalog rc: it is cached and then filtered
\* with the identity read before the suspension (lines 275-324)
FiltListReturns(r, rc) ==
    /\ rpc[r] = "f_list"
    /\ filt_tools_list' = rc
    /\ cacheFiller' = r
    /\ catalog' = [catalog EXCEPT ![r] =
            Served(FilterTools(filt_tools_list', localUid[r], FiltAllowed), 0)]
    /\ rpc' = [rpc EXCEPT ![r] = "run"]
    /\ UNCHANGED <<reqIdentity, slack_user_id_var, localUid, connUrl,
                   notion_params_url, notion_session, filt_session,
                   filt_cache_dirty, lastRead, lastUse, steps>>
    /\ UNCHANGED <<turnVars, filterVars, schemaVars, regVars, msgVars>>

\* the fetch raises: list_tools raises and the run of request r fails
FiltListFails(r) ==
    /\ rpc[r] = "f_list"
    /\ rpc' = [rpc EXCEPT ![r] = "done"]
    /\ UNCHANGED <<reqIdentity, slack_user_id_var, localUid, connUrl,
                   notion_params_url, notion_session, filt_session,
                   filt_tools_list, filt_cache_dirty, cacheFiller, lastRead,
                   lastUse, catalog, steps>>
    /\ UNCHANGED <<turnVars, filterVars, schemaVars, regVars, msgVars>>

\* a list_tools or call_tool of the per-user provider made by the run of
\* request r: both are the base class's (mcp_servers.py:455-461, 472-475)
\* and go through the session of the shared instance, or raise when there
\* is none.
NotionUse(r) ==
    /\ rpc[r] = "run"
    /\ steps < MaxSteps
    /\ steps' = steps + 1
    /\ IF notion_session = NoSession
       THEN /\ rpc' = [rpc EXCEPT ![r] = "done"]
            /\ UNCHANGED lastUse
       ELSE /\ lastUse' = [lastUse EXCEPT ![r] = notion_session]
            /\ UNCHANGED rpc
    /\ UNCHANGED <<reqIdentity, slack_user_id_var, localUid, connUrl,
                   notion_params_url, notion_session, filt_session,
                   filt_tools_list, filt_cache_dirty, cacheFiller, lastRead,
                   catalog>>
    /\ UNCHANGED <<turnVars, filterVars, schemaVars, regVars, msgVars>>

\* the run of request r ends and its response stream is closed
Finish(r) ==
    /\ rpc[r] = "run"
    /\ rpc' = [rpc EXCEPT ![r] = "done"]
    /\ UNCHANGED <<reqIdentity, slack_user_id_var, localUid, connUrl,
                   notion_params_url, notion_session, filt_session,
                   filt_tools_list, filt_cache_dirty, cacheFiller, lastRead,
                   lastUse, catalog, steps>>
    /\ UNCHANGED <<turnVars, filterVars, schemaVars, regVars, msgVars>>

NextConc ==
    \E r \in Reqs :
        \/ Receive(r)
        \/ \E ok \in BOOLEAN : FiltConnectDone(r, ok)
        \/ \E ok \in BOOLEAN : NotionConnectDone(r, ok)
        \/ FiltListTools(r)
        \/ \E rc \in RemoteCatalogs : FiltListReturns(r, rc)
        \/ FiltListFails(r)
        \/ NotionUse(r)
        \/ Finish(r)

SpecConc == InitConc /\ [][NextConc]_vars

\* ---- properties of concurrent requests (checked under SpecConc) -------
\* the connection target the contract derives from an identity
TargetOf(id) ==
    << base_server_url,
       CASE id = Sjoerd -> "sjoerd_url_token"
         [] id = Wouter -> "wouter_url_token"
         [] id = Leonie -> "leonie_url_token"
         [] OTHER -> "default_user_token" >>

\* C7: every connect and every later tool listing or invocation performed
\* for a request uses the connection target derived from that request's
\* own identity.
C7_OwnTargetOnly ==
    \A r \in Reqs :
        /\ connUrl[r] \in {NoSession, TargetOf(reqIdentity[r])}
        /\ lastUse[r] \in {NoSession, TargetOf(reqIdentity[r])}

\* C8: every catalog the filtered provider returns to a request is the
\* remote catalog filtered by that request's own identity, also when it
\* was served from a cache another request filled.
C8_FilteredByOwnIdentity ==
    \A r \in Reqs : catalog[r] # NotServed =>
        \E rc \in RemoteCatalogs :
            catalog[r].tools = FilterTools(rc, reqIdentity[r], FiltAllowed)

\* a catalog served to a known identity from the cache that a request of
\* another known identity filled
C8_Witness ==
    \E r \in Reqs :
        /\ catalog[r].cachedBy \in Reqs \ {r}
        /\ reqIdentity[r] \in DOMAIN user_tool_map
        /\ reqIdentity[catalog[r].cachedBy] \in DOMAIN user_tool_map
        /\ reqIdentity[catalog[r].cachedBy] # reqIdentity[r]
        /\ catalog[r].tools # <<>>

\* C9: a request without identity is handled as an unknown identity: it
\* reads no identity, connects with the default token, gets the tier 2/3
\* catalog, and never works through a connection derived from another
\* request's identity.
C9_NoIdentityIsolated ==
    \A r \in Reqs : reqIdentity[r] = NoIdentity =>
        /\ lastRead[r] \in {Unread, NoIdentity}
        /\ connUrl[r] \in {NoSession, <<base_server_url, DEFAULT_URL_TOKEN>>}
        /\ catalog[r] # NotServed =>
              \E rc \in RemoteCatalogs :
                  catalog[r].tools = AllowLoop(rc, FiltAllowed.names, 1, <<>>, {})
        /\ lastUse[r] \in {NoSession, <<base_server_url, DEFAULT_URL_TOKEN>>}

\* ======================================================================
\*  Schema repair (mcp_servers.py:13-220)
\* ======================================================================
\* A JSON-Schema dict is a record with one field per key the repair reads.
\* A key the dict does not have is NoType / NoDesc / FALSE ("$ref") /
\* Absent.  A key holding dicts holds the sequence of them: `properties`
\* its values in order (the parameters are named by position), `anyOf`
\* (standing for each of allOf, anyOf, oneOf) and `prefixItems` their
\* members, `not` its one dict, and `items` <<d>> for a dict d and <<>> for
\* a value that is not a dict.
Absent == [has |-> FALSE, v |-> <<>>]
Some(members) == [has |-> TRUE, v |-> members]
NoType == "<absent>"
NoDesc == "<absent>"

\* {}
EmptyNode ==
    [ type |-> NoType, description |-> NoDesc, items |-> Absent,
      properties |-> Absent, anyOf |-> Absent, prefixItems |-> Absent,
      not |-> Absent, ref |-> FALSE ]

\* {"type": "string"}
StringItems == [EmptyNode EXCEPT !.type = "string"]

\* lines 39-53: items_is_missing_or_invalid
ItemsInvalid(schema_part) ==
    \/ ~schema_part.items.has
    \/ schema_part.items.v = <<>>
    \/ schema_part.items.v[1] = EmptyNode
    \/ schema_part.items.v[1].type = NoType

\* lines 13-88; the result is the dict as the in-place repair leaves it
RECURSIVE ensure_items_in_schema_recursive(_, _, _)
ensure_items_in_schema_recursive(schema_part, depth, max_depth) ==
    IF depth > max_depth THEN schema_part
    ELSE
      LET is_array_type == schema_part.type = "array"
          \* lines 55-68
          patched ==
              IF is_array_type /\ ItemsInvalid(schema_part)
              THEN [schema_part EXCEPT !.items = Some(<<StringItems>>)]
              ELSE schema_part
          \* lines 71-79
          items_dict == patched.items.v[1]
          visited ==
              IF /\ is_array_type
                 /\ patched.items.v # <<>>
                 /\ (items_dict.type = "array" \/ items_dict.type = NoType)
              THEN [patched EXCEPT !.items = Some(<<
                       ensure_items_in_schema_recursive(items_dict, depth + 1,
                                                        max_depth) >>)]
              ELSE patched
          \* lines 81-88: every dict value, and the dict members of the
          \* four list keys, one level down
          Down(key) ==
              IF key.has
              THEN Some([i \in 1..Len(key.v) |->
                           ensure_items_in_schema_recursive(key.v[i], depth + 1,
                                                            max_depth)])
              ELSE key
          \* the properties dict is itself a dict value: it is entered one
          \* level down and its values one level further down
          DownProperties(key) ==
              IF key.has /\ ~(depth + 1 > max_depth)
              THEN Some([i \in 1..Len(key.v) |->
                           ensure_items_in_schema_recursive(key.v[i], depth + 2,
                                                            max_depth)])
              ELSE key
      IN [ visited EXCEPT
             !.items = Down(visited.items),
             !.properties = DownProperties(visited.properties),
             !.anyOf = Down(visited.anyOf),
             !.prefixItems = Down(visited.prefixItems),
             !.not = Down(visited.not) ]

\* faulty variant: the recursion is entered with a bound no schema reaches
EnsureItems_DepthUnbounded(schema_part) ==
    ensure_items_in_schema_recursive(schema_part, 0, 4 * (MaxNest + 1))

\* lines 192, 198, 202: the call with depth=0 and the default max_depth
EnsureItems(schema_part) ==
    ensure_items_in_schema_recursive(schema_part, 0, default_max_depth)

\* line 169
HasCompositionKey(d) == d.anyOf.has \/ d.not.has \/ d.ref

\* faulty variant: the coerced parameter gets the stock description
PatchProperty_StockDescription(param_schema_dict_val) ==
    IF param_schema_dict_val = EmptyNode
    THEN [EmptyNode EXCEPT !.type = "string",
                           !.description = "Patched: Was an empty schema"]
    ELSE IF /\ param_schema_dict_val.type = NoType
            /\ ~HasCompositionKey(param_schema_dict_val)
    THEN [param_schema_dict_val EXCEPT
            !.type = "string",
            !.description = "Patched: Was a dict missing type"]
    ELSE param_schema_dict_val

\* lines 165-174: an empty or untyped parameter schema
PatchProperty(param_schema_dict_val) ==
    IF param_schema_dict_val = EmptyNode
    THEN [EmptyNode EXCEPT !.type = "string",
                           !.description = "Patched: Was an empty schema"]
    ELSE IF /\ param_schema_dict_val.type = NoType
            /\ ~HasCompositionKey(param_schema_dict_val)
    THEN [param_schema_dict_val EXCEPT
            !.type = "string",
            !.description = IF @ = NoDesc
                            THEN "Patched: Was a dict missing type" ELSE @]
    ELSE param_schema_dict_val

\* lines 150-156: basic schema type enforcement
EnforceType(parameters_schema) ==
    IF parameters_schema.properties.has
    THEN [parameters_schema EXCEPT !.type = "object"]
    ELSE IF parameters_schema = EmptyNode
    THEN [parameters_schema EXCEPT !.type = "object",
                                   !.properties = Some(<<>>)]
    ELSE parameters_schema

\* lines 162-174
PatchProperties(parameters_schema) ==
    IF parameters_schema.type = "object" /\ parameters_schema.properties.has
    THEN [parameters_schema EXCEPT !.properties =
            Some([i \in 1..Len(@.v) |-> PatchProperty(@.v[i])])]
    ELSE parameters_schema

\* lines 176-202
EnsureAll(parameters_schema) ==
    IF parameters_schema.type = "object"
    THEN IF parameters_schema.properties.has
         THEN [parameters_schema EXCEPT !.properties =
                 Some([i \in 1..Len(@.v) |-> EnsureItems(@.v[i])])]
         ELSE parameters_schema
    ELSE EnsureItems(parameters_schema)

\* faulty variant: the type is enforced after the parameters were patched
PatchParametersSchema_TypeEnforcedLast(parameters_schema) ==
    EnforceType(EnsureAll(PatchProperties(parameters_schema)))

\* lines 149-202: one tool's parameter schema
PatchParametersSchema(parameters_schema) ==
    EnsureAll(PatchProperties(EnforceType(parameters_schema)))

\* a tool with its parameter schema: <<d>> for a dict d, <<>> for a tool
\* without one (None)
SchemaTool(n, schema) == [name |-> n, inputSchema |-> schema]

\* a parameter schema that is present and is not a dict (a JSON string),
\* carried in the shape of a dict so that it can stand where dicts stand
StringSchema == [EmptyNode EXCEPT !.type = "<not a dict>"]

\* line 126: isinstance(parameters_schema, dict)
IsDictSchema(schema) ==
    IF schema = <<>> THEN FALSE ELSE schema[1] # StringSchema

\* lines 97-130: the schema is patched if it is a dict
PatchToolDef(tool_def) ==
    IF ~IsDictSchema(tool_def.inputSchema) THEN tool_def
    ELSE [tool_def EXCEPT
            !.inputSchema = << PatchParametersSchema(@[1]) >>]

\* an argument that is not a list: one tool dict handed over in place of
\* the list of tools, with an array parameter that has no items
NotAList ==
    << SchemaTool("<not a list>",
                  << [EmptyNode EXCEPT
                        !.type = "object",
                        !.properties = Some(<< [EmptyNode EXCEPT !.type = "array"] >>)] >>) >>

\* line 92: isinstance(tools_list, list)
IsList(tools_list) == tools_list # NotAList

\* faulty variant: tools whose schema cannot be patched are left out
patch_tool_list_schemas_V2_DropsUnpatchable(tools_list) ==
    IF ~IsList(tools_list) THEN tools_list
    ELSE LET kept == SelectSeq(tools_list,
                               LAMBDA t : IsDictSchema(t.inputSchema))
         IN [i \in 1..Len(kept) |-> PatchToolDef(kept[i])]

\* lines 90-220
patch_tool_list_schemas_V2(tools_list) ==
    IF ~IsList(tools_list) THEN tools_list
    ELSE [i \in 1..Len(tools_list) |-> PatchToolDef(tools_list[i])]

\* ---- schema shapes ------------------------------------------------------
Arr == [EmptyNode EXCEPT !.type = "array"]
ArrOf(d) == [Arr EXCEPT !.items = Some(<<d>>)]
ArrNonDictItems == [Arr EXCEPT !.items = Some(<<>>)]
ObjOf(ps) == [EmptyNode EXCEPT !.type = "object", !.properties = Some(ps)]
PropsOnly(ps) == [EmptyNode EXCEPT !.properties = Some(ps)]
Described(d) == [d EXCEPT !.description = "d"]
Ref == [EmptyNode EXCEPT !.ref = TRUE]

Leaves ==
    { EmptyNode, StringItems, Described(EmptyNode), Described(StringItems),
      Arr, ArrOf(EmptyNode), ArrNonDictItems, ArrOf(Described(EmptyNode)),
      ArrOf([EmptyNode EXCEPT !.type = "integer"]), Ref, Described(Ref) }

WrapKinds == {"items", "object", "properties", "anyOf", "prefixItems", "not"}

Wrap(kind, d) ==
    CASE kind = "items" -> ArrOf(d)
      [] kind = "object" -> ObjOf(<<d>>)
      [] kind = "properties" -> PropsOnly(<<d>>)
      [] kind = "anyOf" -> [EmptyNode EXCEPT !.anyOf = Some(<<d>>)]
      [] kind = "prefixItems" -> [EmptyNode EXCEPT !.prefixItems = Some(<<d>>)]
      [] kind = "not" -> [EmptyNode EXCEPT !.not = Some(<<d>>)]

RECURSIVE Nest(_, _, _)
Nest(kind, levels, d) ==
    IF levels = 0 THEN d ELSE Wrap(kind, Nest(kind, levels - 1, d))

OneLevel == { Wrap(k, d) : k \in WrapKinds, d \in Leaves }

TwoLevels ==
    { Wrap(k, Wrap(j, d)) :
        k \in WrapKinds, j \in WrapKinds,
        d \in {EmptyNode, Described(EmptyNode), Arr} }

\* chains of one keyword that end in an array without valid items, on
\* both sides of the depth bound
Chains ==
    { Nest(k, l, d) : k \in WrapKinds, l \in 3..MaxNest,
                      d \in {Arr, ArrOf(EmptyNode)} }

\* keywords next to properties on one dict
Combined ==
    { [ObjOf(<<StringItems>>) EXCEPT !.anyOf = Some(<<Arr>>)],
      [PropsOnly(<<Arr>>) EXCEPT !.prefixItems = Some(<<ArrOf(EmptyNode)>>)],
      [EmptyNode EXCEPT !.type = "object", !.anyOf = Some(<<Arr>>)],
      ObjOf(<<Described(EmptyNode), Arr>>),
      ObjOf(<<PropsOnly(<<EmptyNode>>), Described(Ref)>>),
      PropsOnly(<<>>), ObjOf(<<>>) }

SchemaPool == Leaves \cup OneLevel \cup TwoLevels \cup Chains \cup Combined

\* schemas of the tools after the first
Followers == { <<>>, <<Arr>>, <<Nest("items", MaxNest, Arr)>> }

ToolNames == <<"t1", "t2", "t3", "t4">>

ToolLists ==
    {<<>>} \cup
    UNION { { [i \in 1..n |-> SchemaTool(ToolNames[i],
                                         IF i = 1 THEN first ELSE rest[i])] :
                first \in {<<>>, <<StringSchema>>}
                            \cup { <<d>> : d \in SchemaPool },
                rest \in [1..n -> Followers] } :
            n \in 1..MaxTools }

InitSchema ==
    /\ spc = "call"
    /\ sTools \in ToolLists \cup {NotAList}
    /\ sOnce = <<>> /\ sTwice = <<>>
    /\ TurnIdle /\ ConcIdle /\ FilterIdle /\ RegIdle /\ MsgIdle

\* list_tools on a freshly fetched tool list
Repair ==
    /\ spc = "call"
    /\ sOnce' = patch_tool_list_schemas_V2(sTools)
    /\ spc' = "once"
    /\ UNCHANGED <<sTools, sTwice>>
    /\ UNCHANGED <<turnVars, concVars, filterVars, regVars, msgVars>>

\* list_tools on the cached tool list, which the first call patched in
\* place (cache_tools_list=True)
RepairAgain ==
    /\ spc = "once"
    /\ sTwice' = patch_tool_list_schemas_V2(sOnce)
    /\ spc' = "twice"
    /\ UNCHANGED <<sTools, sOnce>>
    /\ UNCHANGED <<turnVars, concVars, filterVars, regVars, msgVars>>

NextSchema == Repair \/ RepairAgain

SpecSchema == InitSchema /\ [][NextSchema]_vars

\* ---- a dict before the repair and the same dict after it ----------------
\* depth is the depth at which the repair enters the dict; an `items` dict
\* that the repair replaced by a new one has no counterpart
MinLen(s, t) == IF Len(s) < Len(t) THEN Len(s) ELSE Len(t)

RECURSIVE Pairs(_, _, _, _)
Pairs(a, b, depth, withNot) ==
    LET Sub(x, y, d) ==
            UNION { Pairs(x.v[i], y.v[i], d, withNot) :
                      i \in 1..MinLen(x.v, y.v) }
    IN {[before |-> a, after |-> b, depth |-> depth]}
       \cup (IF a.type = "array" /\ ItemsInvalid(a) THEN {}
             ELSE Sub(a.items, b.items, depth + 1))
       \cup Sub(a.properties, b.properties, depth + 2)
       \cup Sub(a.anyOf, b.anyOf, depth + 1)
       \cup Sub(a.prefixItems, b.prefixItems, depth + 1)
       \cup (IF withNot THEN Sub(a.not, b.not, depth + 1) ELSE {})

\* the values of an object schema's properties are entered at depth 0,
\* any other schema is entered at depth 0 itself
TopDepth(after) == IF after.type = "object" THEN -2 ELSE 0

ToolPairs(i, withNot) ==
    IF ~IsList(sTools) \/ ~IsDictSchema(sTools[i].inputSchema) THEN {}
    ELSE Pairs(sTools[i].inputSchema[1], sOnce[i].inputSchema[1],
               TopDepth(sOnce[i].inputSchema[1]), withNot)

Repaired == spc \in {"once", "twice"}

\* C13: the schema repair is idempotent: applied to its own result it
\* changes nothing.
C13_RepairIdempotent ==
    spc = "twice" => sTwice = sOnce

\* a tool list the repair changes, with a schema nested beyond the bound
C13_Witness ==
    /\ spc = "twice" /\ sOnce # sTools
    /\ \E i \in 1..Len(sTools) : \E pr \in ToolPairs(i, TRUE) :
          pr.depth > default_max_depth

\* C14: after the repair every array-typed dict reachable through
\* properties, items or a member of allOf/anyOf/oneOf/prefixItems, from the
\* top-level schema on and within the depth bound, has items that is a
\* non-empty dict with a type, and it is {"type": "string"} where items
\* was absent or {}.
C14_ArraysHaveTypedItems ==
    Repaired =>
        \A i \in 1..Len(sTools) : \A pr \in ToolPairs(i, FALSE) :
            pr.depth <= default_max_depth =>
                /\ pr.after.type = "array" => ~ItemsInvalid(pr.after)
                /\ ( /\ pr.before.type = "array"
                     /\ (~pr.before.items.has \/ pr.before.items.v = <<EmptyNode>>) )
                   => pr.after.items = Some(<<StringItems>>)

\* C15: every dict, at the top level or nested, that has a non-empty
\* properties map and no type has type "object" after the repair.
C15_UntypedPropertiesBecomeObject ==
    Repaired =>
        \A i \in 1..Len(sTools) : \A pr \in ToolPairs(i, FALSE) :
            ( /\ pr.before.properties.has
              /\ pr.before.properties.v # <<>>
              /\ pr.before.type = NoType )
            => pr.after.type = "object"

C17_UntypedParameterBecomesString ==
    Repaired =>
        \A i \in 1..Len(sTools) :
            (sTools[i].inputSchema # <<>> /\ sTools[i].inputSchema[1].properties.has) =>
                \A j \in 1..Len(sTools[i].inputSchema[1].properties.v) :
                    LET p == sTools[i].inputSchema[1].properties.v[j]
                        q == sOnce[i].inputSchema[1].properties.v[j]
                    IN (p = EmptyNode \/ (p.type = NoType /\ ~HasCompositionKey(p)))
                       => /\ q.type = "string"
                          /\ p.description # NoDesc => q.description = p.description

\* an untyped parameter with a description of its own
C17_Witness ==
    /\ spc = "once"
    /\ \E i \in 1..Len(sTools) :
          /\ sTools[i].inputSchema # <<>>
          /\ sTools[i].inputSchema[1].properties.has
          /\ \E j \in 1..Len(sTools[i].inputSchema[1].properties.v) :
                /\ sTools[i].inputSchema[1].properties.v[j] = Described(EmptyNode)
                /\ sOnce[i].inputSchema[1].properties.v[j] = Described(StringItems)

\* C39: the repair returns the list it was given with the same tools in
\* the same order, on the first call and on a repeated one; a tool whose
\* parameter schema is missing or is not a dict comes back exactly as it
\* was; and an argument that is not a list comes back as it was.
SameToolsInOrder(before, after) ==
    /\ Len(after) = Len(before)
    /\ \A i \in 1..Len(before) :
          /\ after[i].name = before[i].name
          /\ ~IsDictSchema(before[i].inputSchema) => after[i] = before[i]

C39_RepairKeepsTheToolList ==
    /\ Repaired =>
          /\ SameToolsInOrder(sTools, sOnce)
          /\ ~IsList(sTools) => sOnce = sTools
    /\ spc = "twice" =>
          /\ SameToolsInOrder(sOnce, sTwice)
          /\ ~IsList(sOnce) => sTwice = sOnce

\* a tool with a schema that is not a dict, followed by one the repair
\* changes
C39_Witness ==
    /\ spc = "once" /\ Len(sTools) = 2
    /\ sTools[1].inputSchema = <<StringSchema>>
    /\ sOnce[1] = sTools[1]
    /\ sTools[2].inputSchema = <<Arr>>
    /\ sOnce[2].inputSchema = <<ArrOf(StringItems)>>

\* ======================================================================
\*  One request: per-request connect of the agent's providers, then the
\*  model run listing their tools
\* ======================================================================
\* the MCP servers handed to the agent (custom_slack_agent.py:271-280),
\* with the class each is an instance of
Provider(n, c, cache) == [name |-> n, cls |-> c, cache_tools_list |-> cache]

ACTIVE_MCP_SERVERS ==
    << Provider("primary_railway", "MCPServerSse", TRUE),
       Provider("eu2_make", "FilteredMCPServerSse", TRUE),
       Provider("slack", "MCPServerStdio", FALSE),
       Provider("hubspot", "MCPServerStdio", FALSE) >>

Providers == 1..Len(ACTIVE_MCP_SERVERS)

\* a tool as the remote serves it
RTool(n, d, schema) == [name |-> n, description |-> d, inputSchema |-> schema]

\* catalogs a remote may serve: one with schemas the repair would change,
\* one it would leave alone
RemoteOptions ==
    << { << RTool(<<"p", "1">>, <<>>, <<ObjOf(<<Arr>>)>>) >>,
         << RTool(<<"p", "1">>, <<>>, <<ObjOf(<<StringItems>>)>>) >> },
       { << RTool(N_a, <<>>, <<EmptyNode>>),
            RTool(N_x_sjoerd, <<"d">>, <<PropsOnly(<<EmptyNode>>)>>),
            RTool(N_b, <<>>, <<ObjOf(<<>>)>>) >>,
         << RTool(N_a, <<>>, <<ObjOf(<<>>)>>),
            RTool(N_x_sjoerd, <<"d">>, <<ObjOf(<<StringItems>>)>>) >> },
       { << RTool(<<"s", "1">>, <<>>, <<ObjOf(<<ArrOf(EmptyNode)>>)>>),
            RTool(<<"s", "2">>, <<>>, <<ObjOf(<<StringItems>>)>>),
            RTool(<<"s", "3">>, <<>>, <<>>) >>,
         << RTool(<<"s", "1">>, <<>>, <<ObjOf(<<StringItems>>)>>),
            RTool(<<"s", "2">>, <<>>, <<ObjOf(<<>>)>>),
            RTool(<<"s", "3">>, <<>>, <<>>) >> },
       { << RTool(<<"h", "1">>, <<>>, <<ObjOf(<<Described(EmptyNode)>>)>>) >>,
         << RTool(<<"h", "1">>, <<>>, <<ObjOf(<<Described(StringItems)>>)>>) >> } >>

\* MCPServerSse / MCPServerStdio .list_tools of the SDK, as the providers'
\* list_tools call it through super(): without a session it raises
\* UserError, a failing fetch raises the transport's error
NotInitialized == Fl("UserError", "Server", <<>>, "not initialized")
FetchFailures == { Fl("ClosedResourceError", "", <<>>, ""),
                   Fl("TimeoutError", "", <<>>, "") }

\* outcome of one list_tools call
NotListed == [state |-> "none", tools |-> <<>>, error |-> NoFailure]
Returned(tools) == [state |-> "returned", tools |-> tools, error |-> NoFailure]
Raised(f) == [state |-> "raised", tools |-> <<>>, error |-> f]

\* list_tools of the provider's class on a fetched catalog:
\* custom_slack_agent.py:54-109 for FilteredMCPServerSse (filter, no schema
\* repair), the SDK's own list_tools for the other two classes
ListToolsOf(cls, tools, uid) ==
    IF cls = "FilteredMCPServerSse" THEN FilterTools(tools, uid, FiltAllowed)
    ELSE tools

InitRegistry ==
    /\ qpc = "startup"
    /\ qIdentity \in {NoIdentity, Sjoerd}
    /\ qi = 1
    /\ session = [p \in Providers |-> FALSE]
    /\ connect_failed = {}
    /\ remote \in { r \in [Providers -> UNION { RemoteOptions[p] : p \in Providers }] :
                      \A p \in Providers : r[p] \in RemoteOptions[p] }
    /\ listed = [p \in Providers |-> NotListed]
    /\ resolved = <<>>
    /\ qwire = <<>>
    /\ connect_calls = [p \in Providers |-> 0]
    /\ startup_calls = [p \in Providers |-> 0]
    /\ TurnIdle /\ ConcIdle /\ FilterIdle /\ SchemaIdle /\ MsgIdle

\* server.py:70-85, one iteration of the startup loop: the provider's
\* cache flag is set (75-77), connect() returns (connected) or raises
\* (80-82, logged); either way the loop goes on to the next provider, and
\* after the last one the application serves requests
StartupConnect(connected) ==
    /\ qpc = "startup"
    /\ session' = [session EXCEPT ![qi] = connected]
    /\ startup_calls' = [startup_calls EXCEPT ![qi] = @ + 1]
    /\ qi' = IF qi = Len(ACTIVE_MCP_SERVERS) THEN 1 ELSE qi + 1
    /\ qpc' = IF qi = Len(ACTIVE_MCP_SERVERS) THEN "connect" ELSE "startup"
    /\ UNCHANGED <<qIdentity, connect_failed, remote, listed, resolved, qwire,
                   connect_calls>>
    /\ UNCHANGED <<turnVars, concVars, filterVars, schemaVars, msgVars>>

StartupConnectReturns == StartupConnect(TRUE)

StartupConnectRaises == StartupConnect(FALSE)

\* server.py:565-579, one iteration of the loop whose connect() returns;
\* after the last provider the wrapper starts the model run (581-589)
ConnectReturns ==
    /\ qpc = "connect"
    /\ session' = [session EXCEPT ![qi] = TRUE]
    /\ connect_calls' = [connect_calls EXCEPT ![qi] = @ + 1]
    /\ qi' = IF qi = Len(ACTIVE_MCP_SERVERS) THEN 1 ELSE qi + 1
    /\ qpc' = IF qi = Len(ACTIVE_MCP_SERVERS) THEN "run" ELSE "connect"
    /\ UNCHANGED <<qIdentity, connect_failed, remote, listed, resolved, qwire>>
    /\ UNCHANGED startup_calls
    /\ UNCHANGED <<turnVars, concVars, filterVars, schemaVars, msgVars>>

\* faulty variant: a connect() that raises ends the request with an error
ConnectRaises_AbortsRequest ==
    /\ qpc = "connect"
    /\ session' = [session EXCEPT ![qi] = FALSE]
    /\ connect_calls' = [connect_calls EXCEPT ![qi] = @ + 1]
    /\ connect_failed' = connect_failed \cup {qi}
    /\ qwire' = qwire \o << W("error", <<"connect_failed">>) >>
    /\ qpc' = "failed"
    /\ UNCHANGED <<qIdentity, qi, remote, listed, resolved, startup_calls>>
    /\ UNCHANGED <<turnVars, concVars, filterVars, schemaVars, msgVars>>

\* server.py:565-579, one iteration whose connect() raises (transport
\* failure, timeout): connect() has dropped the session, the except clause
\* logs and the loop goes on
ConnectRaises ==
    /\ qpc = "connect"
    /\ session' = [session EXCEPT ![qi] = FALSE]
    /\ connect_calls' = [connect_calls EXCEPT ![qi] = @ + 1]
    /\ connect_failed' = connect_failed \cup {qi}
    /\ qi' = IF qi = Len(ACTIVE_MCP_SERVERS) THEN 1 ELSE qi + 1
    /\ qpc' = IF qi = Len(ACTIVE_MCP_SERVERS) THEN "run" ELSE "connect"
    /\ UNCHANGED <<qIdentity, remote, listed, resolved, qwire>>
    /\ UNCHANGED startup_calls
    /\ UNCHANGED <<turnVars, concVars, filterVars, schemaVars, msgVars>>

\* the run lists the tools of the next provider and gets a catalog
ListReturns ==
    /\ qpc = "run"
    /\ session[qi]
    /\ LET tools == ListToolsOf(ACTIVE_MCP_SERVERS[qi].cls, remote[qi], qIdentity)
       IN /\ listed' = [listed EXCEPT ![qi] = Returned(tools)]
          /\ resolved' = resolved \o tools
    /\ qi' = IF qi = Len(ACTIVE_MCP_SERVERS) THEN qi ELSE qi + 1
    /\ qpc' = IF qi = Len(ACTIVE_MCP_SERVERS) THEN "proceeded" ELSE "run"
    /\ UNCHANGED <<qIdentity, session, connect_failed, remote, qwire,
                   connect_calls>>
    /\ UNCHANGED startup_calls
    /\ UNCHANGED <<turnVars, concVars, filterVars, schemaVars, msgVars>>

\* list_tools raises f: no list_tools catches it, so the run raises it and
\* the except clause of stream_agent_events is what handles it
\* (server.py:120-126, 373-428)
ListRaisesWith(f) ==
    /\ qpc = "run"
    /\ listed' = [listed EXCEPT ![qi] = Raised(f)]
    /\ qwire' = qwire \o HandleFailure(f, max_retries).out
    /\ qpc' = "failed"
    /\ UNCHANGED <<qIdentity, qi, session, connect_failed, remote, resolved,
                   connect_calls>>
    /\ UNCHANGED startup_calls
    /\ UNCHANGED <<turnVars, concVars, filterVars, schemaVars, msgVars>>

\* the provider has no session
ListRaisesNotInitialized ==
    /\ qpc = "run" /\ ~session[qi]
    /\ ListRaisesWith(NotInitialized)

\* the provider has a session and the fetch fails
ListRaisesOnFetch ==
    /\ qpc = "run" /\ session[qi]
    /\ \E f \in FetchFailures : ListRaisesWith(f)

NextRegistry ==
    \/ StartupConnectReturns
    \/ StartupConnectRaises
    \/ ConnectReturns
    \/ ConnectRaises
    \/ ListReturns
    \/ ListRaisesNotInitialized
    \/ ListRaisesOnFetch

SpecRegistry == InitRegistry /\ [][NextRegistry]_vars

\* ---- what the contract says -------------------------------------------
\* C18: for every provider handed to the agent, a catalog its list_tools
\* returns is the repaired catalog: the fetched catalog after
\* patch_tool_list_schemas_V2 (and after the provider's filter).
C18_ListedCatalogsRepaired ==
    \A p \in Providers :
        listed[p].state = "returned" =>
            listed[p].tools =
                ListToolsOf(ACTIVE_MCP_SERVERS[p].cls,
                            patch_tool_list_schemas_V2(remote[p]), qIdentity)

\* C19: list_tools of a provider never raises; when the fetch fails it
\* returns an empty sequence.
C19_ListToolsNeverRaises ==
    \A p \in Providers : listed[p].state # "raised"

\* C20: when a provider fails on its per-request connect and the others
\* connect (and serve their catalogs), the turn proceeds with exactly the
\* other providers' filtered tools in list order, and no error event
\* reaches the caller.
RECURSIVE ToolsOfOthers(_)
ToolsOfOthers(p) ==
    IF p > Len(ACTIVE_MCP_SERVERS) THEN <<>>
    ELSE (IF p \in connect_failed THEN <<>>
          ELSE ListToolsOf(ACTIVE_MCP_SERVERS[p].cls, remote[p], qIdentity))
         \o ToolsOfOthers(p + 1)

C20_FailedProviderContributesNothing ==
    ( /\ qpc \in {"proceeded", "failed"}
      /\ connect_failed # {} /\ connect_failed # Providers
      /\ \A p \in Providers : listed[p].error \notin FetchFailures )
    => /\ qpc = "proceeded"
       /\ resolved = ToolsOfOthers(1)
       /\ qwire = <<>>


\* C21: within one request, a provider whose connect() failed has been given
\* exactly one further connect() attempt (two calls in all) by the time it
\* is recorded as failed and the run starts.
C21_FailedConnectRetriedOnce ==
    qpc # "connect" =>
        \A p \in connect_failed : connect_calls[p] = 2

\* C37: at startup and before the run of a request, connect() is called
\* once on every provider, in list order: while a loop is at provider qi
\* the providers before it have had their call and the others none, and
\* whichever of them failed, the loop reaches the last provider and the
\* request goes on to the run; the request fails only in the run, and
\* nothing is sent to the caller before it.
CalledUpTo(calls, i) ==
    \A p \in Providers : calls[p] = IF p < i THEN 1 ELSE 0

CalledOnAll(calls) == \A p \in Providers : calls[p] = 1

C22_LostConnectionResetsFlag ==
    (pc = "done" /\ lastFailure.cls = "ClosedResourceError")
        => railway_connected = FALSE

\* the texts of the llm_chunk events of a wire, in emission order
RECURSIVE ChunkTexts(_)
ChunkTexts(w) ==
    IF w = <<>> THEN <<>>
    ELSE (IF Head(w).type = "llm_chunk" THEN <<Head(w).data[1]>> ELSE <<>>)
         \o ChunkTexts(Tail(w))

IsDelta(ev) == ev.type = "raw_response_event" /\ ev.data = "delta"

\* the texts of the token-delta events of a sequence of underlying events
RECURSIVE DeltaTexts(_)
DeltaTexts(evs) ==
    IF evs = <<>> THEN <<>>
    ELSE (IF IsDelta(Head(evs)) THEN <<Head(evs).val>> ELSE <<>>)
         \o DeltaTexts(Tail(evs))

\* wire events yielded by the failure handling, not for an underlying event
IsHandlerEvent(w) ==
    \/ w.type = "final_message"
    \/ w.type = "error" /\ w.data # <<"JSON serialization error">>

RECURSIVE FromEvents(_)
FromEvents(w) ==
    IF w = <<>> THEN <<>>
    ELSE (IF IsHandlerEvent(Head(w)) THEN <<>> ELSE <<Head(w)>>)
         \o FromEvents(Tail(w))

IsFlatCall(ev) == ev.type \in {"tool_call", "function_call"}
IsItemCall(ev) == ev.type = "run_item_stream_event" /\ ev.name = "tool_called"
IsFlatResult(ev) == ev.type \in {"tool_result", "function_result"}
IsItemResult(ev) == ev.type = "run_item_stream_event" /\ ev.name = "tool_output"
IsToolFailure(ev) == ev.type \in {"tool_error", "function_error"}

\* wire event w can have been produced for underlying event ev
Produces(ev, w) ==
    IF w.type = "llm_chunk" THEN IsDelta(ev) /\ w.data = <<ev.val>>
    ELSE IF w.type = "tool_calls" THEN IsFlatCall(ev) \/ IsItemCall(ev)
    ELSE IF w.type = "tool_result" THEN IsFlatResult(ev) \/ IsItemResult(ev)
    ELSE IF w.type = "error" THEN ev.type = UnserType
    ELSE IF w.type = "unknown_fallback_attr" THEN ev.type = NoAttr
    ELSE w.type = ev.type

\* the wire events w can be assigned, in order, to events of evs that
\* produce them, the assignment never going back in evs
RECURSIVE InOrderOf(_, _)
InOrderOf(w, evs) ==
    IF w = <<>> THEN TRUE
    ELSE IF evs = <<>> THEN FALSE
    ELSE IF Produces(Head(evs), Head(w)) THEN InOrderOf(Tail(w), evs)
    ELSE InOrderOf(w, Tail(evs))

FinalAttemptEvents == SubSeq(underlying, attemptFrom + 1, Len(underlying))

\* C24: whatever the number of retries, the llm_chunk texts emitted for a
\* completed turn, in emission order, are the assistant text of the turn,
\* i.e. the token deltas of the attempt that completed it.  (Every delta is
\* one non-empty character, so two delta sequences concatenate to the same
\* text only when they are equal.)
C24_ChunksAreFinalAttemptText ==
    (pc = "done" /\ outcome = "clean")
        => ChunkTexts(wire) = DeltaTexts(FinalAttemptEvents)

\* every underlying event consumed so far in the turn satisfies P
AllConsumed(P(_)) ==
    /\ underlying # <<>>
    /\ \A i \in 1..Len(underlying) : P(underlying[i])

\* C25: an underlying tool-invocation-failed event (tool_error or
\* function_error) is only logged: a run that has produced nothing but such
\* events has put nothing on the wire.
C25_ToolFailureNotForwarded ==
    (pc = "streaming" /\ AllConsumed(IsToolFailure)) => wire = <<>>

HasItem(ev) == ev.val # NoItem
IsCallEvent(ev) == IsFlatCall(ev) \/ (IsItemCall(ev) /\ HasItem(ev))
IsResultEvent(ev) == IsFlatResult(ev) \/ (IsItemResult(ev) /\ HasItem(ev))
SerializableCall(ev) == IsCallEvent(ev) /\ Serializable(ev.val)
SerializableResult(ev) == IsResultEvent(ev) /\ Serializable(ev.val)

AllOfType(w, t) == \A i \in 1..Len(w) : w[i].type = t

\* C26: an underlying event is mapped by the first matching rule only: it
\* produces at most one wire event; a tool-invocation-initiated event (flat
\* or nested item shape) produces exactly one tool_calls event and nothing
\* else, a tool-invocation-completed event exactly one tool_result event
\* and nothing else.
C26_OneWireEventPerEvent ==
    /\ Len(FromEvents(wire)) <= Len(underlying)
    /\ (pc = "streaming" /\ AllConsumed(SerializableCall))
          => Len(wire) = Len(underlying) /\ AllOfType(wire, "tool_calls")
    /\ (pc = "streaming" /\ AllConsumed(SerializableResult))
          => Len(wire) = Len(underlying) /\ AllOfType(wire, "tool_result")

\* the value a JSON-encoded string stands for; any other value unchanged
Parsed(v) == IF v = JsonStr THEN Obj ELSE v

\* the arguments or the result a tool wire event carries
Payload(w) == Last(w.data)

RECURSIVE ToolWire(_)
ToolWire(w) ==
    IF w = <<>> THEN <<>>
    ELSE (IF Head(w).type \in {"tool_calls", "tool_result"}
          THEN <<Head(w)>> ELSE <<>>) \o ToolWire(Tail(w))

IsSerializableTool(ev) == SerializableCall(ev) \/ SerializableResult(ev)

\* C27: in both underlying shapes, tool-call arguments and tool results that
\* arrive as a JSON-encoded string are emitted as the parsed value, and any
\* other value is emitted unchanged.
C27_JsonStringsParsed ==
    (pc = "streaming" /\ AllConsumed(IsSerializableTool))
        => /\ Len(ToolWire(wire)) = Len(underlying)
           /\ \A i \in 1..Len(underlying) :
                 Payload(ToolWire(wire)[i]) = Parsed(underlying[i].val)

IsBookkeeping(ev) ==
    \/ ev.type = "raw_response_event" /\ ev.data = "other"
    \/ ev.type = "agent_updated_stream_event"
    \/ ev.type = "run_item_stream_event"
         /\ ~(IsItemCall(ev) /\ HasItem(ev))
         /\ ~(IsItemResult(ev) /\ HasItem(ev))

\* neither a token delta, nor a tool call/result/failure event, nor
\* bookkeeping
IsOtherEvent(ev) ==
    /\ ev.type \notin {"raw_response_event", "agent_updated_stream_event",
                       "run_item_stream_event"}
    /\ ~IsFlatCall(ev) /\ ~IsFlatResult(ev) /\ ~IsToolFailure(ev)

PassthroughType(ev) ==
    IF ev.type = NoAttr THEN "unknown_fallback_attr"
    ELSE IF ev.type = UnserType THEN "error"
    ELSE ev.type

C30_RetriesResendSameMessages ==
    \A i \in 1..Len(sent) : sent[i] = sent[1] /\ sent[i] = cleaned_messages

\* a turn that was retried twice and ended
C30_Witness ==
    /\ pc = "done" /\ retried = max_retries
    /\ Len(sent) = max_retries + 1
    /\ sent[Len(sent)] = sent[1]

\* a failure of the run is answered with a retry
RetryStep == pc = "streaming" /\ pc' = "backoff"

\* C31: 0 <= attempts_left <= max_retries in every state of a turn;
\* attempts_left goes down by exactly one on each failure that is retried
\* and changes on no other step; the run is invoked at most max_retries + 1
\* times; and, every model stream being finite, the turn eventually ends
\* (Done or Failed) unless the caller disconnects first.
C31_BoundedRetries ==
    /\ [](attempts_left \in 0..max_retries)
    /\ [](Len(sent) <= max_retries + 1)
    /\ [][ attempts_left' = IF RetryStep THEN attempts_left - 1
                            ELSE attempts_left ]_vars
    /\ <>(pc = "done" \/ closed)

\* a turn that used every retry and failed
C31_Witness ==
    /\ pc = "done" /\ outcome = "exhausted"
    /\ attempts_left = 0 /\ Len(sent) = max_retries + 1

\* C34: a turn whose run completes cleanly emits no final_message event and
\* no error event: the stream ends after the last normalised event, and
\* the run was invoked once more than the number of retried failures.
C34_CleanTurnHasNoTerminalEvent ==
    (pc = "done" /\ outcome = "clean")
        => /\ CountIf(wire, Terminal) = 0
           /\ Len(sent) = retried + 1

\* the assembled list is empty or its last message has empty content
NothingToSend ==
    Len(cleaned_messages) = 0
       \/ cleaned_messages[Len(cleaned_messages)].content = ""

\* C35: when the assembled message list is empty or its last message has
\* empty content, the response is exactly one error event ("No content to
\* process ...") and the run is never invoked; otherwise the run is invoked
\* with the assembled list.
C35_NoContentAnsweredWithoutRun ==
    /\ (pc # "start" /\ NothingToSend)
          => /\ pc = "done"
             /\ wire = << W("error", <<"no_content">>) >>
             /\ sent = <<>>
    /\ (pc \notin {"start", "invoke"} /\ ~NothingToSend)
          => /\ sent # <<>>
             /\ \A i \in 1..Len(sent) : sent[i] = cleaned_messages

\* a request whose only message has empty content was answered
C35_Witness ==
    /\ pc = "done" /\ outcome = "no_content"
    /\ cleaned_messages = << Msg("user", "") >>
    /\ Len(wire) = 1 /\ sent = <<>>

\* C33: once the caller has disconnected (the response generator is closed
\* or cancelled at an emission or during the back-off) the turn consumes no
\* further underlying event, starts no further attempt and emits no further
\* wire event -- neither in the step in which the generator is closed nor
\* in any later one.
C33_NothingAfterDisconnect ==
    [][ (closed \/ closed')
          => /\ consumed' = consumed /\ underlying' = underlying
             /\ sent' = sent
             /\ wire' = wire ]_vars

\* the caller disconnected during the back-off before a retry, after a chunk
\* had been emitted
C33_Witness ==
    /\ closed /\ pc = "closed"
    /\ retried = 1 /\ Len(sent) = 1
    /\ wire # <<>>

\* ======================================================================
\*  Message assembly (generate_stream, server.py:461-532, 581-589)
\* ======================================================================
NoKey == "<no-key>"              \* the dict has no such key
NotADict == "<not-a-dict>"       \* an item that is no dict and has no .dict

\* image_url values
UrlStr == "str:http://i"
UrlStrWrapped == "dict:{url:http://i}"
UrlDict == "dict:{url:http://j}"
UrlDictNoUrl == "dict:{}"

\* a content item; text and image_url are NoKey when the key is missing
Part(t, txt, url) == [type |-> t, text |-> txt, image_url |-> url]

\* a content value: a str, a list of items, or no "content" key at all
Str(t) == [kind |-> "str", text |-> t, parts |-> <<>>]
List(items) == [kind |-> "list", text |-> "", parts |-> items]
NoContentKey == [kind |-> "missing", text |-> "", parts |-> <<>>]

\* lines 475-495 (history) and 509-525 (prompt): the part one item becomes
TransformItem(item) ==
    IF item.type = NotADict THEN <<>>
    ELSE IF item.type \in {"input_text", "text"} THEN
        << Part("text", IF item.text = NoKey THEN "" ELSE item.text, NoKey) >>
    ELSE IF item.type \in {"input_image", "image_url"} THEN
        IF item.image_url = UrlStr
        THEN << Part("image_url", NoKey, UrlStrWrapped) >>
        ELSE IF item.image_url = UrlDict
        THEN << Part("image_url", NoKey, UrlDict) >>
        ELSE <<>>
    ELSE <<>>

RECURSIVE TransformItems(_)
TransformItems(items) ==
    IF items = <<>> THEN <<>>
    ELSE TransformItem(Head(items)) \o TransformItems(Tail(items))

\* faulty variant: system entries of the history are kept
RECURSIVE ProcessHistory_KeepsSystem(_)
ProcessHistory_KeepsSystem(h) ==
    IF h = <<>> THEN <<>>
    ELSE LET m == Head(h) IN
         (IF m.role = NoKey \/ m.content = NoContentKey THEN <<>>
          ELSE IF m.content.kind = "list"
          THEN << Msg(m.role, List(TransformItems(m.content.parts))) >>
          ELSE << Msg(m.role, m.content) >>)
         \o ProcessHistory_KeepsSystem(Tail(h))

\* lines 462-499
RECURSIVE ProcessHistory(_)
ProcessHistory(h) ==
    IF h = <<>> THEN <<>>
    ELSE LET m == Head(h) IN
         (IF m.role = NoKey \/ m.content = NoContentKey THEN <<>>
          ELSE IF m.role = "system" THEN <<>>
          ELSE IF m.content.kind = "list"
          THEN << Msg(m.role, List(TransformItems(m.content.parts))) >>
          ELSE << Msg(m.role, m.content) >>)
         \o ProcessHistory(Tail(h))

\* lines 504-525
PromptContent(p) ==
    IF p.kind = "str" THEN << Part("text", p.text, NoKey) >>
    ELSE TransformItems(p.parts)

\* lines 527-532
AssembleMessages(ph, cuc) ==
    IF cuc # <<>> THEN Append(ph, Msg("user", List(cuc))) ELSE ph

\* `not cleaned_messages or not cleaned_messages[-1].get("content")`
NoContentToSend(ms) ==
    IF ms = <<>> THEN TRUE
    ELSE LET c == Last(ms).content IN
         (c.kind = "str" /\ c.text = "") \/ (c.kind = "list" /\ c.parts = <<>>)

\* the agent's instructions (custom_slack_agent.py:271-277) and what the
\* run presents to the model: the instructions as the system message,
\* followed by the input list
system_prompt == "system_prompt"
ModelInput(ms) == << Msg("system", Str(system_prompt)) >> \o ms

\* ---- request inputs
HistEntries ==
    { Msg("user", Str("q1")),
      Msg("assistant", Str("a1")),
      Msg("system", Str("s1")),
      Msg("user", List(<< Part("input_text", "q2", NoKey),
                          Part("input_image", NoKey, UrlStr),
                          Part(NotADict, NoKey, NoKey) >>)),
      Msg("system", List(<< Part("text", "s2", NoKey) >>)),
      Msg(NoKey, Str("x")),
      Msg("user", NoContentKey) }

PromptItems ==
    { Part("text", "p1", NoKey),
      Part("input_text", NoKey, NoKey),
      Part("input_image", NoKey, UrlStr),
      Part("image_url", NoKey, UrlDict),
      Part("input_image", NoKey, UrlDictNoUrl),
      Part("file", NoKey, NoKey) }

SeqsUpTo(S, n) == UNION { [1..k -> S] : k \in 0..n }

Histories == SeqsUpTo(HistEntries, MaxHistory)
Prompts ==
    {Str("hi"), Str("")} \cup { List(items) : items \in SeqsUpTo(PromptItems, MaxPrompt) }

InitMessages ==
    /\ mpc = "received"
    /\ history \in Histories
    /\ prompt \in Prompts
    /\ processed_history = <<>> /\ current_user_content = <<>>
    /\ messages = <<>> /\ model_input = <<>>
    /\ TurnIdle /\ ConcIdle /\ FilterIdle /\ SchemaIdle /\ RegIdle

\* lines 461-499
TransformHistory ==
    /\ mpc = "received"
    /\ processed_history' = ProcessHistory(history)
    /\ mpc' = "history_done"
    /\ UNCHANGED <<history, prompt, current_user_content, messages,
                   model_input>>
    /\ UNCHANGED <<turnVars, concVars, filterVars, schemaVars, regVars>>

\* lines 501-525
TransformPrompt ==
    /\ mpc = "history_done"
    /\ current_user_content' = PromptContent(prompt)
    /\ mpc' = "prompt_done"
    /\ UNCHANGED <<history, prompt, processed_history, messages,
                   model_input>>
    /\ UNCHANGED <<turnVars, concVars, filterVars, schemaVars, regVars>>

\* lines 527-532
Assemble ==
    /\ mpc = "prompt_done"
    /\ messages' = AssembleMessages(processed_history, current_user_content)
    /\ mpc' = "assembled"
    /\ UNCHANGED <<history, prompt, processed_history, current_user_content,
                   model_input>>
    /\ UNCHANGED <<turnVars, concVars, filterVars, schemaVars, regVars>>

\* managed_stream_wrapper, lines 584-587: nothing to send
RejectNoContent ==
    /\ mpc = "assembled"
    /\ NoContentToSend(messages)
    /\ mpc' = "rejected"
    /\ UNCHANGED <<history, prompt, processed_history, current_user_content,
                   messages, model_input>>
    /\ UNCHANGED <<turnVars, concVars, filterVars, schemaVars, regVars>>

\* lines 589 and 120-124: the list is handed to the run of _agent
RunAgent ==
    /\ mpc = "assembled"
    /\ ~NoContentToSend(messages)
    /\ model_input' = ModelInput(messages)
    /\ mpc' = "running"
    /\ UNCHANGED <<history, prompt, processed_history, current_user_content,
                   messages>>
    /\ UNCHANGED <<turnVars, concVars, filterVars, schemaVars, regVars>>

NextMessages ==
    \/ TransformHistory
    \/ TransformPrompt
    \/ Assemble
    \/ RejectNoContent
    \/ RunAgent

SpecMessages == InitMessages /\ [][NextMessages]_vars

\* ---- claims on the assembled list
Assembled == mpc \in {"assembled", "running", "rejected"}

IsTextItem(item) == item.type \in {"input_text", "text"}

RECURSIVE FirstText(_)
FirstText(items) ==
    IF items = <<>> THEN ""
    ELSE IF IsTextItem(Head(items))
         THEN (IF Head(items).text = NoKey THEN "" ELSE Head(items).text)
    ELSE FirstText(Tail(items))

\* what identifies an entry before and after its content is transformed
Key(m) ==
    << m.role,
       IF m.content.kind = "list" THEN FirstText(m.content.parts)
       ELSE m.content.text >>

RECURSIVE Keys(_)
Keys(ms) == IF ms = <<>> THEN <<>> ELSE <<Key(Head(ms))>> \o Keys(Tail(ms))

\* the history entries the claim speaks of: well-formed and not system
RECURSIVE Kept(_)
Kept(h) ==
    IF h = <<>> THEN <<>>
    ELSE (IF Head(h).role \in {NoKey, "system"} \/ Head(h).content = NoContentKey
          THEN <<>> ELSE <<Head(h)>>) \o Kept(Tail(h))

NoSystemEntry(ms) == \A i \in 1..Len(ms) : ms[i].role # "system"

\* the list starts with the kept history entries, in their order, and has
\* at most one entry more
HistoryKeepsOrder ==
    /\ Len(messages) \in {Len(Kept(history)), Len(Kept(history)) + 1}
    /\ Keys(SubSeq(messages, 1, Len(Kept(history)))) = Keys(Kept(history))

PromptIsLastUserEntry ==
    /\ Len(messages) = Len(Kept(history)) + 1
    /\ Last(messages).role = "user"
    /\ Last(messages).content.kind = "list"
    /\ Last(messages).content.parts # <<>>

\* the instructions of the agent are the first and only system message
OwnInstructionFirstAndOnly ==
    mpc = "running" =>
        /\ model_input[1] = Msg("system", Str(system_prompt))
        /\ NoSystemEntry(Tail(model_input))

NonEmptyPrompt == prompt # Str("") /\ prompt # List(<<>>)

\* C29: the list handed to the agent has no system entry from the history,
\* the other history entries keep their order, the prompt, when non-empty,
\* is the last entry and has role user, and the agent's own instruction is
\* the only system instruction and comes first.
C29_AssembledMessages ==
    Assembled =>
        /\ NoSystemEntry(messages)
        /\ HistoryKeepsOrder
        /\ NonEmptyPrompt => PromptIsLastUserEntry
        /\ OwnInstructionFirstAndOnly

\* an item the transformation turns into a content part
IsUsableItem(item) ==
    \/ IsTextItem(item)
    \/ item.type \in {"input_image", "image_url"}
         /\ item.image_url \in {UrlStr, UrlDict}

HasUsableContent(p) ==
    p.kind = "str" \/ \E i \in 1..Len(p.parts) : IsUsableItem(p.parts[i])

\* C29 (amended): as C29, with the prompt being the last entry, with role
\* user, when it is a string or has at least one text item or image item
\* with a URL; a prompt without such an item adds no entry.
C29_AssembledMessagesUsablePrompt ==
    Assembled =>
        /\ NoSystemEntry(messages)
        /\ HistoryKeepsOrder
        /\ HasUsableContent(prompt) => PromptIsLastUserEntry
        /\ ~HasUsableContent(prompt) => Len(messages) = Len(Kept(history))
        /\ OwnInstructionFirstAndOnly

\* a history with a system entry before a user entry, and a list prompt
\* with a text item, handed to the run
C29_Witness ==
    /\ mpc = "running"
    /\ Len(history) = 2
    /\ history[1].role = "system" /\ history[2] = Msg("user", Str("q1"))
    /\ prompt = List(<< Part("text", "p1", NoKey) >>)
    /\ messages = << Msg("user", Str("q1")),
                     Msg("user", List(<< Part("text", "p1", NoKey) >>)) >>

\* ======================================================================
\*  Claims on the shared provider instances (specification SpecConc)
\* ======================================================================

\* C32: the cache of a caching provider is invalidated before the turn
\* starts, so no list_tools call of a request is served a catalog that was
\* cached before the request began.
C32_NoCatalogCachedBeforeRequest ==
    \A r \in Reqs :
        catalog[r] # NotServed => catalog[r].cachedBy # EarlierRequest

\* C38: the target of the per-user provider is determined by the identity
\* of the request that connects: the mapped token for an identity in the
\* URL-token map, the default token for an absent or unmapped one; and
\* each connect() has written that target into the provider's params when
\* its connection attempt starts.
StartsNotionConnect(r) == rpc[r] = "f_connect" /\ rpc'[r] = "n_connect"

C38_TargetFromRequestIdentity ==
    /\ [](\A r \in Reqs :
            connUrl[r] # NoSession => connUrl[r] = TargetOf(reqIdentity[r]))
    /\ [][ \A r \in Reqs : StartsNotionConnect(r) =>
              /\ notion_params_url' = TargetOf(reqIdentity[r])
              /\ connUrl'[r] = notion_params_url' ]_vars

\* a mapped and an unmapped identity connect one after the other, the
\* second while the first is still connecting
C38_Witness ==
    /\ reqIdentity[1] = Sjoerd /\ reqIdentity[2] = Stranger
    /\ rpc[1] = "n_connect" /\ rpc[2] = "n_connect"
    /\ connUrl[1] = <<base_server_url, "sjoerd_url_token">>
    /\ connUrl[2] = <<base_server_url, "default_user_token">>
    /\ notion_params_url = connUrl[2]

====
